---- MODULE Spec2Model ----
(***************************************************************************)
(* A model of the flags-rs client: the in-memory flag cache, the refresh   *)
(* gate (refresh_in_progress), the circuit breaker (CircuitState) and the  *)
(* read operations is_enabled, get_multiple and list, run by concurrent    *)
(* callers on one client (or on clones of it, which share the cache, the   *)
(* circuit state and the gate through Arc).                                *)
(*                                                                         *)
(* Spec takes a replacement of the cache and a lookup as one step each.    *)
(* LockSpec tells apart the steps taken under the guards of the cache's    *)
(* RwLock: clear, insert and deadline update of MemoryCache::refresh, the  *)
(* lookups of get_multiple, and all_enabled and any_enabled on top of it.  *)
(* LocalSpec is the client without credentials, whose flags all come from  *)
(* FLAGS_ environment variables. BuildSpec is ClientBuilder::build, before *)
(* there is a client. MwSpec is the tower middleware serving requests      *)
(* through one client. LiveSpec is one caller whose read calls go on as    *)
(* time passes, with the fairness under which the client heals. BatchSpec  *)
(* is get_multiple on more name lists.                                     *)
(*                                                                         *)
(* Strings are sequences of one-character strings, so that to_lowercase,   *)
(* replace and the FLAGS_ prefix handling are computed, not assumed.       *)
(* Instants are integers, in seconds, relative to the present: Utc::now()   *)
(* is 0, and when d seconds pass every stored instant moves d seconds into *)
(* the past. Stored instants the code cannot tell apart are identified: a  *)
(* deadline that has passed, a failure older than the cool-down.           *)
(***************************************************************************)
EXTENDS Integers, Sequences, FiniteSets, TLC

\* ------------------------------------------------------- program constants

\* lib.rs:307, the cool-down of an open breaker, in seconds.
CoolDown == 10
\* lib.rs:341, the interval of the local-only snapshot written after a failure.
FallbackInterval == 60
\* cache.rs:42, a new cache's deadline lies this many seconds in the past.
InitialExpiry == 90

\* --------------------------------------------------------------- strings

UpperChars == <<"A","B","C","D","E","F","G","H","I","J","K","L","M",
                "N","O","P","Q","R","S","T","U","V","W","X","Y","Z">>
LowerChars == <<"a","b","c","d","e","f","g","h","i","j","k","l","m",
                "n","o","p","q","r","s","t","u","v","w","x","y","z">>

LowerChar(ch) ==
    IF \E i \in DOMAIN UpperChars : UpperChars[i] = ch
    THEN LowerChars[CHOOSE i \in DOMAIN UpperChars : UpperChars[i] = ch]
    ELSE ch

\* str::to_lowercase (ASCII).
to_lowercase(s) == [i \in DOMAIN s |-> LowerChar(s[i])]

\* str::replace for a one-character pattern and replacement.
replace(s, from, to) == [i \in DOMAIN s |-> IF s[i] = from THEN to ELSE s[i]]

\* str::contains for a one-character pattern.
contains(s, ch) == \E i \in DOMAIN s : s[i] = ch

\* str::starts_with.
starts_with(s, p) == Len(s) >= Len(p) /\ SubSeq(s, 1, Len(p)) = p

\* str::trim_start_matches: the prefix is removed as often as it matches.
RECURSIVE trim_start_matches(_, _)
trim_start_matches(s, p) ==
    IF Len(p) > 0 /\ starts_with(s, p)
    THEN trim_start_matches(SubSeq(s, Len(p) + 1, Len(s)), p)
    ELSE s

FlagsPrefix == <<"F","L","A","G","S","_">>
LocalIdPrefix == <<"l","o","c","a","l","_">>

\* ------------------------------------------------------------ flag records

\* flag.rs: FeatureFlag { enabled, details: Details { name, id } }.
FeatureFlag(enabled, name, id) == [enabled |-> enabled, name |-> name, id |-> id]

\* The flags one environment variable contributes (the body of build_local's loop).
LocalFlagsOf(key, value) ==
    IF ~starts_with(key, FlagsPrefix) THEN <<>>
    ELSE
      LET enabled == (value = "true")
          flag_name_lower == to_lowercase(trim_start_matches(key, FlagsPrefix))
          hyphenated == replace(flag_name_lower, "_", "-")
          spaced == replace(replace(flag_name_lower, "_", " "), "-", " ")
          mk(n) == FeatureFlag(enabled, n, LocalIdPrefix \o n)
      IN  <<mk(flag_name_lower)>>
          \o (IF contains(flag_name_lower, "_") THEN <<mk(hyphenated)>> ELSE <<>>)
          \o (IF contains(flag_name_lower, "_") \/ contains(flag_name_lower, "-")
              THEN <<mk(spaced)>> ELSE <<>>)

\* build_local over the environment e, a sequence of [key, value] pairs in
\* the order env::vars() yields them.
RECURSIVE build_local(_)
build_local(e) ==
    IF e = <<>> THEN <<>>
    ELSE LocalFlagsOf(Head(e).key, Head(e).value) \o build_local(Tail(e))

\* Inserting the flags of a sequence into a map one after the other: a later
\* flag of the same name replaces an earlier one (HashMap::insert, collect).
RECURSIVE InsertAll(_, _)
InsertAll(m, flags) ==
    IF flags = <<>> THEN m
    ELSE LET f == Head(flags)
             m2 == [n \in (DOMAIN m) \cup {f.name} |-> IF n = f.name THEN f ELSE m[n]]
         IN  InsertAll(m2, Tail(flags))

EmptyMap == [n \in {} |-> FeatureFlag(FALSE, <<>>, <<>>)]

\* The loop of refetch over the API flags: a local flag of the same name is
\* taken out of local_flags_map and used instead of the API flag.
RECURSIVE CombineApi(_, _)
CombineApi(api_flags, local_flags_map) ==
    IF api_flags = <<>> THEN [combined |-> <<>>, rest |-> local_flags_map]
    ELSE LET a == Head(api_flags)
         IN  IF a.name \in DOMAIN local_flags_map
             THEN LET r == CombineApi(Tail(api_flags),
                              [n \in (DOMAIN local_flags_map) \ {a.name} |-> local_flags_map[n]])
                  IN  [combined |-> <<local_flags_map[a.name]>> \o r.combined, rest |-> r.rest]
             ELSE LET r == CombineApi(Tail(api_flags), local_flags_map)
                  IN  [combined |-> <<a>> \o r.combined, rest |-> r.rest]

\* The values of a map in some order (HashMap::into_values).
RECURSIVE into_values(_)
into_values(m) ==
    IF DOMAIN m = {} THEN <<>>
    ELSE LET n == CHOOSE x \in DOMAIN m : TRUE
         IN  <<m[n]>> \o into_values([x \in (DOMAIN m) \ {n} |-> m[x]])

\* API flags stored under their names as sent.
ApiAsSent(flags) == flags

\* The names of the API flags are lowercased (refetch, first statement after the fetch).
LowercasedApi(flags) ==
    [i \in DOMAIN flags |-> FeatureFlag(flags[i].enabled, to_lowercase(flags[i].name), flags[i].id)]

\* combined_flags of refetch: API flags and local flags, merged.
CombinedFlags(api_resp_flags, local_flags) ==
    LET r == CombineApi(LowercasedApi(api_resp_flags), InsertAll(EmptyMap, local_flags))
    IN  r.combined \o into_values(r.rest)

\* ------------------------------------------------------------ the cache

\* A new cache whose deadline lies a cache_ttl ahead.
NewCacheNotDue(t) == [flags |-> EmptyMap, cache_ttl |-> 60, next_refresh |-> t + 60]

\* MemoryCache::new: no flags, a deadline 90 seconds in the past.
NewCache(t) == [flags |-> EmptyMap, cache_ttl |-> 60, next_refresh |-> t - InitialExpiry]

\* MemoryCache::get: (enabled, exists).
CacheGet(c, name) ==
    IF name \in DOMAIN c.flags THEN <<c.flags[name].enabled, TRUE>> ELSE <<FALSE, FALSE>>

\* MemoryCache::get_all: the records, in no particular order.
CacheGetAll(c) == {c.flags[n] : n \in DOMAIN c.flags}

\* MemoryCache::refresh at time t.
CacheRefresh(c, flags, interval_allowed, t) ==
    [flags |-> InsertAll(EmptyMap, flags),
     cache_ttl |-> interval_allowed,
     next_refresh |-> t + interval_allowed]

\* A cache that is always due for a refresh.
should_refresh_cache_always(c, t) == TRUE

\* A cache that is due for a refresh at its deadline already.
should_refresh_cache_at_deadline(c, t) == t >= c.next_refresh

\* MemoryCache::should_refresh_cache at time t.
should_refresh_cache(c, t) == t > c.next_refresh

\* ------------------------------------------------- the inputs of the model

Callers == {"c1", "c2"}

nf == <<"f">>
nF == <<"F">>
ng == <<"g">>
nh == <<"h">>

\* The names callers ask for.
Names == {nf, nF, ng, nh}
\* The names is_enabled is asked for where the guards are told apart.
LockNames == {nf}
\* The name lists callers pass to get_multiple.
Batches == {<<nf, ng>>, <<nF, nf>>}

\* The bodies the remote answers with: intervalAllowed and flags.
Resp1 == [interval_allowed |-> 60,
          flags |-> <<FeatureFlag(TRUE, nf, <<"1">>), FeatureFlag(FALSE, ng, <<"2">>)>>]
Resp2 == [interval_allowed |-> 1,
          flags |-> <<FeatureFlag(TRUE, nF, <<"1">>), FeatureFlag(FALSE, nf, <<"3">>)>>]
Responses == {Resp1, Resp2}

\* The process environments: no FLAGS_ variable, or FLAGS_F=true and FLAGS_H=TRUE
\* next to a variable that is not a flag.
EnvVar(name, value) == [key |-> FlagsPrefix \o name, value |-> value]
Environments ==
    {<<>>,
     <<EnvVar(nF, "true"), [key |-> <<"P","A","T","H">>, value |-> "true"],
       EnvVar(<<"H">>, "TRUE")>>}

\* The values of max_retries clients are built with (the default is 3, lib.rs:28).
RetryChoices == {1, 3}

\* The amounts of time (seconds) that pass in one step of the clock. After one
\* step the cool-down (10 s) has elapsed and a 1 s snapshot has expired; a 60 s
\* snapshot is still fresh after two steps (deadline = now) and expired after three.
TickSteps == {30}

\* Utc::now(): the present instant.
now == 0

\* Option<DateTime>: <<>> is None, <<t>> is Some(t).
None == <<>>
Some(t) == <<t>>

NoResult == [kind |-> "none"]
NoResp == [kind |-> "none"]

\* ------------------------------------------------------------- the state

VARIABLES
    env,                  \* the process environment read by build_local
    auth,                 \* Client.auth is Some(..)
    max_retries,          \* Client.max_retries
    cache,                \* Client.cache (shared by clones)
    circuit_state,        \* Client.circuit_state (shared by clones)
    refresh_in_progress,  \* Client.refresh_in_progress, the gate (shared by clones)
    pc,                   \* where each caller is in its read operation
    resp,                 \* the outcome of the caller's fetch_flags
    refetch_err,          \* refetch returned Err to the caller
    result,               \* what the read operation returned
    entry,                \* how the caller's refetch passed the breaker check
    attempts,             \* fetch_flags calls made by the caller's current operation
    net_calls,            \* requests sent to the remote by the caller's current operation
    callbacks,            \* error callback invocations of the caller's current operation
    saw_stale,            \* the caller found the current snapshot stale
    peer_fetched,         \* a concurrent caller sent a request for the snapshot this caller found stale
    snapshot_fetched,     \* a request was sent since the snapshot was last replaced
    rwlock,               \* the RwLock around Client.cache: its writer and its readers
    todo,                 \* the records a caller has yet to insert, or the names it has yet to look up
    view,                 \* the records of the cache when the caller took its read guard
    committed,            \* the cache as the last completed refresh (or new) left it
    age,                  \* the seconds since the last refresh of the cache, if any
    last_writer,          \* the caller whose current operation replaced the cache last, if any
    builder,              \* the ClientBuilder build is called on, if the client is yet to be built
    build_result,         \* what ClientBuilder::build returned
    mw                    \* the request the tower middleware is serving, if any

vars == <<env, auth, max_retries, cache, circuit_state, refresh_in_progress,
          pc, resp, refetch_err, result, entry, attempts, net_calls, callbacks,
          saw_stale, peer_fetched, snapshot_fetched, rwlock, todo, view, committed, age, last_writer,
          builder, build_result, mw>>

\* The state of the cache's guards and of the steps taken under them.
locklevel == <<rwlock, todo, view, committed, age>>

\* What no step of a built client changes.
config == <<env, auth, max_retries, builder, build_result, mw>>

\* ClientBuilder::build, Ok case: closed breaker, free gate, new cache.
Init ==
    /\ env \in Environments
    /\ auth \in BOOLEAN
    /\ max_retries \in RetryChoices
    /\ cache = NewCache(0)
    /\ circuit_state = [is_open |-> FALSE, failure_count |-> 0, last_failure |-> None]
    /\ refresh_in_progress = FALSE
    /\ pc = [c \in Callers |-> "idle"]
    /\ resp = [c \in Callers |-> NoResp]
    /\ refetch_err = [c \in Callers |-> FALSE]
    /\ result = [c \in Callers |-> NoResult]
    /\ entry = [c \in Callers |-> "none"]
    /\ attempts = [c \in Callers |-> 0]
    /\ net_calls = [c \in Callers |-> 0]
    /\ callbacks = [c \in Callers |-> 0]
    /\ saw_stale = [c \in Callers |-> FALSE]
    /\ peer_fetched = [c \in Callers |-> FALSE]
    /\ snapshot_fetched = FALSE
    /\ rwlock = [writer |-> FALSE, readers |-> {}]
    /\ todo = [c \in Callers |-> <<>>]
    /\ view = [c \in Callers |-> None]
    /\ committed = NewCache(0)
    /\ age = None
    /\ last_writer = None
    /\ builder = None
    /\ build_result = [kind |-> "Ok"]
    /\ mw = None

\* -------------------------------------------------------- the read path

\* A caller enters is_enabled, get_multiple or list. The three run the same
\* statements up to their lookup (Read), where the operation and its
\* arguments are first used.
Call(c) ==
    /\ pc[c] = "idle"
    /\ UNCHANGED last_writer
    /\ UNCHANGED locklevel
    /\ pc' = [pc EXCEPT ![c] = "check"]
    /\ UNCHANGED <<config, cache, circuit_state, refresh_in_progress, resp,
                   refetch_err, result, entry, attempts, net_calls, callbacks,
                   saw_stale, peer_fetched, snapshot_fetched>>

\* self.cache.read().await.should_refresh_cache().await: the read guard is
\* taken, which no writer may hold, and dropped at the end of the statement.
CheckStale(c) ==
    /\ pc[c] = "check"
    /\ UNCHANGED last_writer
    /\ ~rwlock.writer
    /\ UNCHANGED locklevel
    /\ IF should_refresh_cache(cache, now)
       THEN /\ pc' = [pc EXCEPT ![c] = "cas"]
            /\ saw_stale' = [saw_stale EXCEPT ![c] = TRUE]
            /\ peer_fetched' = [peer_fetched EXCEPT ![c] = snapshot_fetched]
       ELSE /\ pc' = [pc EXCEPT ![c] = "read"]
            /\ UNCHANGED <<saw_stale, peer_fetched>>
    /\ UNCHANGED <<config, cache, circuit_state, refresh_in_progress, resp,
                   refetch_err, result, entry, attempts, net_calls, callbacks,
                   snapshot_fetched>>

\* A compare_exchange that never fails: every caller takes the gate.
compare_exchange_always(gate) == TRUE

\* refresh_in_progress.compare_exchange(false, true, SeqCst, SeqCst).is_ok()
compare_exchange_ok(gate) == gate = FALSE

\* A gate callers wait for: the compare_exchange is repeated until it succeeds.
TryAcquireWaits(c) ==
    /\ pc[c] = "cas"
    /\ UNCHANGED last_writer
    /\ UNCHANGED locklevel
    /\ compare_exchange_ok(refresh_in_progress)
    /\ refresh_in_progress' = TRUE
    /\ pc' = [pc EXCEPT ![c] = "refetch"]
    /\ UNCHANGED <<config, cache, circuit_state, resp, refetch_err, result,
                   entry, attempts, net_calls, callbacks, saw_stale, peer_fetched,
                   snapshot_fetched>>

\* A refresh without a gate: every caller that found the cache stale goes on
\* to refetch.
TryAcquireWithoutGate(c) ==
    /\ pc[c] = "cas"
    /\ UNCHANGED last_writer
    /\ UNCHANGED locklevel
    /\ pc' = [pc EXCEPT ![c] = "refetch"]
    /\ UNCHANGED <<config, cache, circuit_state, refresh_in_progress, resp, refetch_err,
                   result, entry, attempts, net_calls, callbacks, saw_stale, peer_fetched,
                   snapshot_fetched>>

\* if compare_exchange(..).is_ok() { refetch; store(false) }: the winner goes
\* on to refetch, a loser to its lookup.
TryAcquire(c) ==
    /\ pc[c] = "cas"
    /\ UNCHANGED last_writer
    /\ UNCHANGED locklevel
    /\ IF compare_exchange_ok(refresh_in_progress)
       THEN /\ refresh_in_progress' = TRUE
            /\ pc' = [pc EXCEPT ![c] = "refetch"]
       ELSE /\ pc' = [pc EXCEPT ![c] = "read"]
            /\ UNCHANGED refresh_in_progress
    /\ UNCHANGED <<config, cache, circuit_state, resp, refetch_err, result,
                   entry, attempts, net_calls, callbacks, saw_stale, peer_fetched,
                   snapshot_fetched>>

\* A breaker that, once open, skips every fetch.
BreakerSkipsWhileOpen(cs, t) == cs.is_open

\* A breaker check that still skips when exactly the cool-down has passed.
BreakerSkipsInclusive(cs, t) ==
    cs.is_open /\ cs.last_failure # None /\ t - cs.last_failure[1] <= CoolDown

\* A breaker check that never skips: no cool-down.
BreakerNeverSkips(cs, t) == FALSE

\* refetch, the breaker check: the breaker stays open for CoolDown seconds
\* after the last failure.
BreakerSkips(cs, t) ==
    cs.is_open /\ cs.last_failure # None /\ t - cs.last_failure[1] < CoolDown

\* A breaker whose failure count is reset while it stays open.
CircuitOnHealStaysOpen(cs) == [cs EXCEPT !.failure_count = 0]

\* refetch, the breaker after the cool-down: closed, with no failures counted.
CircuitOnHeal(cs) == [cs EXCEPT !.is_open = FALSE, !.failure_count = 0]

\* refetch, from taking the circuit_state write lock to dropping it.
RefetchEntry(c) ==
    /\ pc[c] = "refetch"
    /\ UNCHANGED last_writer
    /\ UNCHANGED locklevel
    /\ IF BreakerSkips(circuit_state, now)
       THEN \* return Ok(()) without fetching
            /\ pc' = [pc EXCEPT ![c] = "release"]
            /\ entry' = [entry EXCEPT ![c] = "skip"]
            /\ UNCHANGED circuit_state
       ELSE /\ pc' = [pc EXCEPT ![c] = "fetch"]
            /\ IF circuit_state.is_open
               THEN /\ circuit_state' = CircuitOnHeal(circuit_state)
                    /\ entry' = [entry EXCEPT ![c] = "heal"]
               ELSE /\ UNCHANGED circuit_state
                    /\ entry' = [entry EXCEPT ![c] = "closed"]
    /\ UNCHANGED <<config, cache, refresh_in_progress, resp, refetch_err,
                   result, attempts, net_calls, callbacks, saw_stale, peer_fetched,
                   snapshot_fetched>>

\* A fetch_flags that sends its request without looking at auth.
FetchFlagsWithoutAuthCheck(c) ==
    /\ pc[c] = "fetch"
    /\ UNCHANGED last_writer
    /\ UNCHANGED locklevel
    /\ attempts' = [attempts EXCEPT ![c] = @ + 1]
    /\ pc' = [pc EXCEPT ![c] = "await"]
    /\ net_calls' = [net_calls EXCEPT ![c] = @ + 1]
    /\ snapshot_fetched' = TRUE
    /\ UNCHANGED <<config, cache, circuit_state, refresh_in_progress, resp, refetch_err,
                   result, entry, callbacks, saw_stale, peer_fetched>>

\* fetch_flags up to the request: without auth it returns AuthError at once,
\* otherwise the GET is sent and the caller waits for the answer.
FetchFlags(c) ==
    /\ pc[c] = "fetch"
    /\ UNCHANGED last_writer
    /\ UNCHANGED locklevel
    /\ attempts' = [attempts EXCEPT ![c] = @ + 1]
    /\ IF ~auth
       THEN /\ resp' = [resp EXCEPT ![c] = [kind |-> "err", error |-> "AuthError"]]
            /\ pc' = [pc EXCEPT ![c] = "fetch_err"]
            /\ UNCHANGED <<net_calls, peer_fetched, snapshot_fetched>>
       ELSE /\ pc' = [pc EXCEPT ![c] = "await"]
            /\ net_calls' = [net_calls EXCEPT ![c] = @ + 1]
            /\ snapshot_fetched' = TRUE
            /\ peer_fetched' = [d \in Callers |->
                                  IF d # c /\ saw_stale[d] THEN TRUE ELSE peer_fetched[d]]
            /\ UNCHANGED resp
    /\ UNCHANGED <<config, cache, circuit_state, refresh_in_progress, refetch_err, result, entry, callbacks, saw_stale>>

\* The answer arrives: a 2xx body that decodes, or a transport, status or
\* decode error.
HttpReturn(c) ==
    /\ pc[c] = "await"
    /\ UNCHANGED last_writer
    /\ UNCHANGED locklevel
    /\ \/ \E r \in Responses :
            /\ resp' = [resp EXCEPT ![c] = [kind |-> "ok", body |-> r]]
            /\ pc' = [pc EXCEPT ![c] = "fetch_ok"]
       \/ /\ resp' = [resp EXCEPT ![c] = [kind |-> "err", error |-> "HttpError"]]
          /\ pc' = [pc EXCEPT ![c] = "fetch_err"]
    /\ UNCHANGED <<config, cache, circuit_state, refresh_in_progress, refetch_err, result, entry, attempts, net_calls, callbacks,
                   saw_stale, peer_fetched, snapshot_fetched>>

\* A success that leaves the failure count as it is.
CircuitOnSuccessKeepsCount(cs) == cs

\* refetch, Ok arm: the failure count is reset.
CircuitOnSuccess(cs) == [cs EXCEPT !.failure_count = 0]

OnFetchOk(c) ==
    /\ pc[c] = "fetch_ok"
    /\ UNCHANGED last_writer
    /\ UNCHANGED locklevel
    /\ circuit_state' = CircuitOnSuccess(circuit_state)
    /\ pc' = [pc EXCEPT ![c] = "merge"]
    /\ UNCHANGED <<config, cache, refresh_in_progress, resp, refetch_err,
                   result, entry, attempts, net_calls, callbacks, saw_stale,
                   peer_fetched, snapshot_fetched>>

\* A refetch that fetches and leaves the cache as it is.
MergedCacheKeepsOld(c, body, e, t) == c

\* refetch after a successful fetch: merge with build_local() and refresh
\* the cache with the server's interval; refetch returns Ok(()).
MergedCache(c, body, e, t) ==
    CacheRefresh(c, CombinedFlags(body.flags, build_local(e)), body.interval_allowed, t)

WriteMerged(c) ==
    /\ pc[c] = "merge"
    /\ last_writer' = Some(c)
    /\ UNCHANGED locklevel
    /\ cache' = MergedCache(cache, resp[c].body, env, now)
    /\ resp' = [resp EXCEPT ![c] = NoResp]
    /\ saw_stale' = [d \in Callers |-> FALSE]
    /\ snapshot_fetched' = FALSE
    /\ pc' = [pc EXCEPT ![c] = "release"]
    /\ UNCHANGED <<config, circuit_state, refresh_in_progress,
                   refetch_err, result, entry, attempts, net_calls, callbacks,
                   peer_fetched>>

\* A breaker that opens one failure late.
CircuitOnFailureLate(cs, maxr, t) ==
    LET n == cs.failure_count + 1
    IN  [is_open |-> IF n > maxr THEN TRUE ELSE cs.is_open,
         failure_count |-> n,
         last_failure |-> Some(t)]

\* refetch, Err arm, under the circuit_state write lock.
CircuitOnFailure(cs, maxr, t) ==
    LET n == cs.failure_count + 1
    IN  [is_open |-> IF n >= maxr THEN TRUE ELSE cs.is_open,
         failure_count |-> n,
         last_failure |-> Some(t)]

\* handle_error: the registered callback is invoked once.
handle_error(n) == n + 1

OnFetchErr(c) ==
    /\ pc[c] = "fetch_err"
    /\ UNCHANGED last_writer
    /\ UNCHANGED locklevel
    /\ circuit_state' = CircuitOnFailure(circuit_state, max_retries, now)
    /\ callbacks' = [callbacks EXCEPT ![c] = handle_error(@)]
    /\ pc' = [pc EXCEPT ![c] = "fallback"]
    /\ UNCHANGED <<config, cache, refresh_in_progress, resp, refetch_err,
                   result, entry, attempts, net_calls, saw_stale, peer_fetched,
                   snapshot_fetched>>

\* A fallback that keeps the records of the snapshot it replaces.
FallbackCacheKeepsOld(c, e, t) ==
    CacheRefresh(c, into_values(c.flags) \o build_local(e), FallbackInterval, t)

\* refetch, Err arm: the cache is refreshed with the local flags only, for
\* 60 seconds, and the error is returned.
FallbackCache(c, e, t) == CacheRefresh(c, build_local(e), FallbackInterval, t)

WriteFallback(c) ==
    /\ pc[c] = "fallback"
    /\ last_writer' = Some(c)
    /\ UNCHANGED locklevel
    /\ cache' = FallbackCache(cache, env, now)
    /\ resp' = [resp EXCEPT ![c] = NoResp]
    /\ refetch_err' = [refetch_err EXCEPT ![c] = TRUE]
    /\ saw_stale' = [d \in Callers |-> FALSE]
    /\ snapshot_fetched' = FALSE
    /\ pc' = [pc EXCEPT ![c] = "release"]
    /\ UNCHANGED <<config, circuit_state, refresh_in_progress, result,
                   entry, attempts, net_calls, callbacks, peer_fetched>>

\* A caller of refetch that reports an error whatever refetch returned.
CallbacksAfterRefetchAlways(n, failed) == handle_error(n)

\* The caller of refetch: on Err the error is logged and handed to
\* handle_error; then the gate is released.
CallbacksAfterRefetch(n, failed) == IF failed THEN handle_error(n) ELSE n

\* A gate that is given back only by a refetch that returned Ok.
GateKeptOnError(failed) == failed

\* refresh_in_progress.store(false, SeqCst), the statement after the if let
\* Err around refetch: the gate's value whatever refetch returned.
GateAfterRefetch(failed) == FALSE

Release(c) ==
    /\ pc[c] = "release"
    /\ UNCHANGED last_writer
    /\ UNCHANGED locklevel
    /\ callbacks' = [callbacks EXCEPT ![c] = CallbacksAfterRefetch(@, refetch_err[c])]
    /\ refresh_in_progress' = GateAfterRefetch(refetch_err[c])
    /\ pc' = [pc EXCEPT ![c] = "read"]
    /\ UNCHANGED <<config, cache, circuit_state, resp, refetch_err, result,
                   entry, attempts, net_calls, saw_stale, peer_fetched,
                   snapshot_fetched>>

\* A lookup that takes an absent flag for an enabled one.
IsEnabledAbsentTrue(c, name) ==
    LET got == CacheGet(c, to_lowercase(name))
    IN  IF got[2] THEN got[1] ELSE TRUE

\* is_enabled, after the refresh: the lookup of the lowercased name.
IsEnabledResult(c, name) ==
    LET got == CacheGet(c, to_lowercase(name))
    IN  IF got[2] THEN got[1] ELSE FALSE

\* A get_multiple whose entries are keyed by the lowercased names.
GetMultipleLowercasedKeys(c, names) ==
    LET keys == {to_lowercase(names[i]) : i \in DOMAIN names}
    IN  [k \in keys |-> LET got == CacheGet(c, k) IN got[2] /\ got[1]]

\* get_multiple, after the refresh: one entry per name as written, under one
\* read lock.
GetMultipleResult(c, names) ==
    LET keys == {names[i] : i \in DOMAIN names}
    IN  [k \in keys |-> LET got == CacheGet(c, to_lowercase(k)) IN got[2] /\ got[1]]

\* A list that leaves out the disabled flags.
ListResultEnabledOnly(c) == {r \in CacheGetAll(c) : r.enabled}

\* list, after the refresh: Ok(get_all()).
ListResult(c) == CacheGetAll(c)

\* The caller takes the cache read guard, which no writer may hold, and answers.
Read(c) ==
    /\ pc[c] = "read"
    /\ UNCHANGED last_writer
    /\ ~rwlock.writer
    /\ UNCHANGED locklevel
    /\ \/ \E n \in Names :
                result' = [result EXCEPT ![c] =
                    [kind |-> "is_enabled", name |-> n, value |-> IsEnabledResult(cache, n)]]
       \/ \E b \in Batches :
                result' = [result EXCEPT ![c] =
                    [kind |-> "get_multiple", names |-> b, value |-> GetMultipleResult(cache, b)]]
       \/ result' = [result EXCEPT ![c] = [kind |-> "list", value |-> ListResult(cache)]]
    /\ pc' = [pc EXCEPT ![c] = "done"]
    /\ UNCHANGED <<config, cache, circuit_state, refresh_in_progress, resp,
                   refetch_err, entry, attempts, net_calls, callbacks, saw_stale,
                   peer_fetched, snapshot_fetched>>

\* The operation has returned; the caller's locals are dropped.
Return(c) ==
    /\ pc[c] = "done"
    /\ last_writer' = IF last_writer = Some(c) THEN None ELSE last_writer
    /\ todo' = [todo EXCEPT ![c] = <<>>]
    /\ view' = [view EXCEPT ![c] = None]
    /\ UNCHANGED <<rwlock, committed, age>>
    /\ pc' = [pc EXCEPT ![c] = "idle"]
    /\ resp' = [resp EXCEPT ![c] = NoResp]
    /\ refetch_err' = [refetch_err EXCEPT ![c] = FALSE]
    /\ result' = [result EXCEPT ![c] = NoResult]
    /\ entry' = [entry EXCEPT ![c] = "none"]
    /\ attempts' = [attempts EXCEPT ![c] = 0]
    /\ net_calls' = [net_calls EXCEPT ![c] = 0]
    /\ callbacks' = [callbacks EXCEPT ![c] = 0]
    /\ saw_stale' = [saw_stale EXCEPT ![c] = FALSE]
    /\ peer_fetched' = [peer_fetched EXCEPT ![c] = FALSE]
    /\ UNCHANGED <<config, cache, circuit_state, refresh_in_progress,
                   snapshot_fetched>>

\* A deadline d seconds later: one that has passed is kept as the deadline of
\* a new cache, which has passed too.
DeadlineAfter(t, d) == IF t - d < now THEN now - InitialExpiry ELSE t - d

\* The instant of the last failure d seconds later: one older than the
\* cool-down is kept as exactly the cool-down ago.
FailureAfter(lf, d) ==
    IF lf = None THEN None
    ELSE IF now - (lf[1] - d) >= CoolDown THEN Some(now - CoolDown) ELSE Some(lf[1] - d)

\* Time passes.
Tick ==
    /\ UNCHANGED last_writer
    /\ UNCHANGED locklevel
    /\ \E d \in TickSteps :
         /\ cache' = [cache EXCEPT !.next_refresh = DeadlineAfter(@, d)]
         /\ circuit_state' = [circuit_state EXCEPT !.last_failure = FailureAfter(@, d)]
    /\ UNCHANGED <<config, refresh_in_progress, pc, resp,
                   refetch_err, result, entry, attempts, net_calls, callbacks,
                   saw_stale, peer_fetched, snapshot_fetched>>

Next ==
    \/ Tick
    \/ \E c \in Callers :
         \/ Call(c)
         \/ CheckStale(c)
         \/ TryAcquire(c)
         \/ RefetchEntry(c)
         \/ FetchFlags(c)
         \/ HttpReturn(c)
         \/ OnFetchOk(c)
         \/ WriteMerged(c)
         \/ OnFetchErr(c)
         \/ WriteFallback(c)
         \/ Release(c)
         \/ Read(c)
         \/ Return(c)

Spec == Init /\ [][Next]_vars

\* ------------------------------------- the cache, one guard at a time

\* The same client with the steps taken under the guards of its RwLock told
\* apart: MemoryCache::refresh clears the map, inserts the records one by one
\* and sets the deadline while refetch holds the write guard; get_multiple
\* looks its names up one by one while it holds a read guard.

\* A write guard that is granted while readers hold theirs.
WriteGuardMergedOverReaders(c) ==
    /\ pc[c] = "merge"
    /\ UNCHANGED last_writer
    /\ ~rwlock.writer
    /\ rwlock' = [rwlock EXCEPT !.writer = TRUE]
    /\ todo' = [todo EXCEPT ![c] = CombinedFlags(resp[c].body.flags, build_local(env))]
    /\ pc' = [pc EXCEPT ![c] = "clear"]
    /\ UNCHANGED <<config, cache, circuit_state, refresh_in_progress, resp, refetch_err,
                   result, entry, attempts, net_calls, callbacks, saw_stale,
                   peer_fetched, snapshot_fetched, view, committed, age>>

\* let mut cache = self.cache.write().await, after a successful fetch: the
\* guard is granted when no reader and no writer holds one; combined_flags
\* are the records to insert.
WriteGuardMerged(c) ==
    /\ pc[c] = "merge"
    /\ UNCHANGED last_writer
    /\ ~rwlock.writer /\ rwlock.readers = {}
    /\ rwlock' = [rwlock EXCEPT !.writer = TRUE]
    /\ todo' = [todo EXCEPT ![c] = CombinedFlags(resp[c].body.flags, build_local(env))]
    /\ pc' = [pc EXCEPT ![c] = "clear"]
    /\ UNCHANGED <<config, cache, circuit_state, refresh_in_progress, resp, refetch_err,
                   result, entry, attempts, net_calls, callbacks, saw_stale,
                   peer_fetched, snapshot_fetched, view, committed, age>>

\* A write guard that is granted while readers hold theirs, after a failed fetch.
WriteGuardFallbackOverReaders(c) ==
    /\ pc[c] = "fallback"
    /\ UNCHANGED last_writer
    /\ ~rwlock.writer
    /\ rwlock' = [rwlock EXCEPT !.writer = TRUE]
    /\ todo' = [todo EXCEPT ![c] = build_local(env)]
    /\ pc' = [pc EXCEPT ![c] = "clear"]
    /\ UNCHANGED <<config, cache, circuit_state, refresh_in_progress, resp, refetch_err,
                   result, entry, attempts, net_calls, callbacks, saw_stale,
                   peer_fetched, snapshot_fetched, view, committed, age>>

\* let mut cache = self.cache.write().await, after a failed fetch: the local
\* flags are the records to insert.
WriteGuardFallback(c) ==
    /\ pc[c] = "fallback"
    /\ UNCHANGED last_writer
    /\ ~rwlock.writer /\ rwlock.readers = {}
    /\ rwlock' = [rwlock EXCEPT !.writer = TRUE]
    /\ todo' = [todo EXCEPT ![c] = build_local(env)]
    /\ pc' = [pc EXCEPT ![c] = "clear"]
    /\ UNCHANGED <<config, cache, circuit_state, refresh_in_progress, resp, refetch_err,
                   result, entry, attempts, net_calls, callbacks, saw_stale,
                   peer_fetched, snapshot_fetched, view, committed, age>>

\* A refresh that does not clear the map.
RefreshClearKeeps(c) ==
    /\ pc[c] = "clear"
    /\ UNCHANGED last_writer
    /\ pc' = [pc EXCEPT ![c] = "insert"]
    /\ UNCHANGED <<config, cache, circuit_state, refresh_in_progress, resp, refetch_err,
                   result, entry, attempts, net_calls, callbacks, saw_stale,
                   peer_fetched, snapshot_fetched, locklevel>>

\* MemoryCache::refresh: flag_map.clear().
RefreshClear(c) ==
    /\ pc[c] = "clear"
    /\ UNCHANGED last_writer
    /\ cache' = [cache EXCEPT !.flags = EmptyMap]
    /\ pc' = [pc EXCEPT ![c] = "insert"]
    /\ UNCHANGED <<config, circuit_state, refresh_in_progress, resp, refetch_err,
                   result, entry, attempts, net_calls, callbacks, saw_stale,
                   peer_fetched, snapshot_fetched, locklevel>>

\* MemoryCache::refresh: one turn of the loop, flag_map.insert(name, flag).
RefreshInsert(c) ==
    /\ pc[c] = "insert"
    /\ UNCHANGED last_writer
    /\ todo[c] # <<>>
    /\ cache' = [cache EXCEPT !.flags = InsertAll(@, <<Head(todo[c])>>)]
    /\ todo' = [todo EXCEPT ![c] = Tail(@)]
    /\ UNCHANGED <<config, circuit_state, refresh_in_progress, pc, resp, refetch_err,
                   result, entry, attempts, net_calls, callbacks, saw_stale,
                   peer_fetched, snapshot_fetched, rwlock, view, committed, age>>

\* The interval refetch passes to refresh: the server's, or 60 after a failure.
IntervalOf(r) == IF r.kind = "ok" THEN r.body.interval_allowed ELSE FallbackInterval

\* MemoryCache::refresh after the loop: cache_ttl and next_refresh are set,
\* refresh returns and the write guard is dropped; refetch returns Ok(()), or
\* the error of the failed fetch.
RefreshDeadline(c) ==
    /\ pc[c] = "insert"
    /\ last_writer' = Some(c)
    /\ todo[c] = <<>>
    /\ cache' = [cache EXCEPT !.cache_ttl = IntervalOf(resp[c]),
                              !.next_refresh = now + IntervalOf(resp[c])]
    /\ rwlock' = [rwlock EXCEPT !.writer = FALSE]
    /\ committed' = cache'
    /\ age' = Some(0)
    /\ refetch_err' = [refetch_err EXCEPT ![c] = (resp[c].kind = "err")]
    /\ resp' = [resp EXCEPT ![c] = NoResp]
    /\ saw_stale' = [d \in Callers |-> FALSE]
    /\ snapshot_fetched' = FALSE
    /\ pc' = [pc EXCEPT ![c] = "release"]
    /\ UNCHANGED <<config, circuit_state, refresh_in_progress, result, entry,
                   attempts, net_calls, callbacks, peer_fetched, todo, view>>

\* No entry yet: HashMap::with_capacity(names.len()).
NoEntries == [k \in {} |-> FALSE]

\* let cache = self.cache.read().await: the guard is granted when no writer
\* holds one. The operation and its arguments are first used here;
\* all_enabled and any_enabled run get_multiple.
ReadGuard(c) ==
    /\ pc[c] = "read"
    /\ UNCHANGED last_writer
    /\ ~rwlock.writer
    /\ rwlock' = [rwlock EXCEPT !.readers = @ \cup {c}]
    /\ view' = [view EXCEPT ![c] = Some(cache.flags)]
    /\ \/ \E n \in LockNames :
            /\ result' = [result EXCEPT ![c] = [kind |-> "is_enabled", name |-> n]]
            /\ todo' = [todo EXCEPT ![c] = <<n>>]
       \/ \E b \in Batches :
            /\ result' = [result EXCEPT ![c] =
                  [kind |-> "get_multiple", names |-> b, value |-> NoEntries]]
            /\ todo' = [todo EXCEPT ![c] = b]
       \/ /\ result' = [result EXCEPT ![c] = [kind |-> "list"]]
          /\ todo' = [todo EXCEPT ![c] = <<>>]
    /\ pc' = [pc EXCEPT ![c] = "lookup"]
    /\ UNCHANGED <<config, cache, circuit_state, refresh_in_progress, resp, refetch_err,
                   entry, attempts, net_calls, callbacks, saw_stale, peer_fetched,
                   snapshot_fetched, committed, age>>

\* results.insert(name.to_string(), exists && enabled)
EntryInserted(results, c, name) ==
    LET got == CacheGet(c, to_lowercase(name))
    IN  [k \in (DOMAIN results) \cup {name} |->
            IF k = name THEN got[2] /\ got[1] ELSE results[k]]

\* One cache.get under the read guard: the one of is_enabled, or one turn of
\* get_multiple's loop.
Lookup(c) ==
    /\ pc[c] = "lookup"
    /\ UNCHANGED last_writer
    /\ todo[c] # <<>>
    /\ todo' = [todo EXCEPT ![c] = Tail(@)]
    /\ result' = [result EXCEPT ![c] =
          IF @.kind = "is_enabled"
          THEN [kind |-> "is_enabled", name |-> @.name,
                value |-> IsEnabledResult(cache, Head(todo[c]))]
          ELSE [@ EXCEPT !.value = EntryInserted(@, cache, Head(todo[c]))]]
    /\ UNCHANGED <<config, cache, circuit_state, refresh_in_progress, pc, resp,
                   refetch_err, entry, attempts, net_calls, callbacks, saw_stale,
                   peer_fetched, snapshot_fetched, rwlock, view, committed, age>>

\* An all_enabled that is content with one enabled flag.
AllEnabledNeedsOne(names, flags) ==
    \E i \in DOMAIN names : IF names[i] \in DOMAIN flags THEN flags[names[i]] ELSE FALSE

\* all_enabled after get_multiple: names.iter().all(|name| flags.get(name).copied().unwrap_or(false))
AllEnabledResult(names, flags) ==
    \A i \in DOMAIN names : IF names[i] \in DOMAIN flags THEN flags[names[i]] ELSE FALSE

\* any_enabled after get_multiple: names.iter().any(|name| flags.get(name).copied().unwrap_or(false))
AnyEnabledResult(names, flags) ==
    \E i \in DOMAIN names : IF names[i] \in DOMAIN flags THEN flags[names[i]] ELSE FALSE

\* The operation returns and its read guard is dropped: list returns
\* get_all(), get_multiple its entries; all_enabled and any_enabled, which
\* have run get_multiple, return what its entries amount to.
Answer(c) ==
    /\ pc[c] = "lookup"
    /\ UNCHANGED last_writer
    /\ todo[c] = <<>>
    /\ rwlock' = [rwlock EXCEPT !.readers = @ \ {c}]
    /\ \/ /\ result[c].kind = "list"
          /\ result' = [result EXCEPT ![c] = [kind |-> "list", value |-> ListResult(cache)]]
       \/ /\ result[c].kind = "is_enabled"
          /\ UNCHANGED result
       \/ /\ result[c].kind = "get_multiple"
          /\ \/ UNCHANGED result
             \/ result' = [result EXCEPT ![c] =
                    [kind |-> "all_enabled", names |-> @.names, flags |-> @.value,
                     value |-> AllEnabledResult(@.names, @.value)]]
             \/ result' = [result EXCEPT ![c] =
                    [kind |-> "any_enabled", names |-> @.names, flags |-> @.value,
                     value |-> AnyEnabledResult(@.names, @.value)]]
    /\ pc' = [pc EXCEPT ![c] = "done"]
    /\ UNCHANGED <<config, cache, circuit_state, refresh_in_progress, resp,
                   refetch_err, entry, attempts, net_calls, callbacks, saw_stale,
                   peer_fetched, snapshot_fetched, todo, view, committed, age>>

\* all_enabled(&[]) returns true and any_enabled(&[]) false before anything
\* else is done.
EmptyNames(c) ==
    /\ pc[c] = "idle"
    /\ UNCHANGED last_writer
    /\ \/ result' = [result EXCEPT ![c] =
             [kind |-> "all_enabled", names |-> <<>>, flags |-> NoEntries, value |-> TRUE]]
       \/ result' = [result EXCEPT ![c] =
             [kind |-> "any_enabled", names |-> <<>>, flags |-> NoEntries, value |-> FALSE]]
    /\ pc' = [pc EXCEPT ![c] = "done"]
    /\ UNCHANGED <<config, cache, circuit_state, refresh_in_progress, resp,
                   refetch_err, entry, attempts, net_calls, callbacks, saw_stale,
                   peer_fetched, snapshot_fetched, locklevel>>

\* The age of a refresh d seconds later: one beyond the refresh's interval is
\* kept as the interval and the age of a new cache's deadline.
AgeAfter(a, d, ttl) ==
    IF a = None THEN None
    ELSE IF a[1] + d > ttl THEN Some(ttl + InitialExpiry) ELSE Some(a[1] + d)

\* Time passes, for the cache of the last completed refresh as well.
TickLocked ==
    /\ UNCHANGED last_writer
    /\ \E d \in TickSteps :
         /\ cache' = [cache EXCEPT !.next_refresh = DeadlineAfter(@, d)]
         /\ committed' = [committed EXCEPT !.next_refresh = DeadlineAfter(@, d)]
         /\ circuit_state' = [circuit_state EXCEPT !.last_failure = FailureAfter(@, d)]
         /\ age' = AgeAfter(age, d, committed.cache_ttl)
    /\ UNCHANGED <<config, refresh_in_progress, pc, resp,
                   refetch_err, result, entry, attempts, net_calls, callbacks,
                   saw_stale, peer_fetched, snapshot_fetched, rwlock, todo, view>>

LockInit == Init /\ auth /\ max_retries = 1 /\ env # <<>>

LockNext ==
    \/ TickLocked
    \/ \E c \in Callers :
         \/ Call(c)
         \/ EmptyNames(c)
         \/ CheckStale(c)
         \/ TryAcquire(c)
         \/ RefetchEntry(c)
         \/ FetchFlags(c)
         \/ HttpReturn(c)
         \/ OnFetchOk(c)
         \/ WriteGuardMerged(c)
         \/ OnFetchErr(c)
         \/ WriteGuardFallback(c)
         \/ RefreshClear(c)
         \/ RefreshInsert(c)
         \/ RefreshDeadline(c)
         \/ Release(c)
         \/ ReadGuard(c)
         \/ Lookup(c)
         \/ Answer(c)
         \/ Return(c)

LockSpec == LockInit /\ [][LockNext]_vars

\* ------------------------------------------------------------ properties

\* The callers inside refetch or about to release the gate: the gate's holders.
InRefetch == {"refetch", "fetch", "await", "fetch_ok", "merge", "fetch_err", "fallback",
              "release"}
Holders == {c \in Callers : pc[c] \in InRefetch}

\* The names that have a local override in environment e.
LocalNames(e) == {build_local(e)[i].name : i \in DOMAIN build_local(e)}

\* C1: of the concurrent callers that found the same snapshot stale, only one
\* sends a request to the remote: no caller sends a request for a snapshot
\* for which a concurrent caller, which found it stale too, has sent one.
C1_SingleFlight ==
    \A c \in Callers : ~(peer_fetched[c] /\ net_calls[c] >= 1)

\* C2: at most one caller holds the gate at any time, the gate is set while
\* it is held, and so at most one request to the remote is in flight.
C2_OneGateHolder ==
    /\ Cardinality(Holders) <= 1
    /\ (Holders # {} => refresh_in_progress)
    /\ Cardinality({c \in Callers : pc[c] = "await"}) <= 1

\* C2, its case: one caller waits for the remote's answer while another, which
\* found the snapshot stale as well, has lost the compare_exchange.
C2_Witness ==
    \E c, d \in Callers :
        /\ c # d
        /\ pc[c] = "await"
        /\ pc[d] = "read" /\ saw_stale[d] /\ entry[d] = "none"

\* What the merge rule asks of the snapshot written from the remote list and
\* the local overrides: a name with a local override resolves to the
\* override's value, a remote name without one resolves to the value of a
\* remote record of that name, and every local override is in the snapshot.
MergeRule(remote, local, snapshot) ==
    /\ \A i \in DOMAIN local :
          /\ local[i].name \in DOMAIN snapshot.flags
          /\ IsEnabledResult(snapshot, local[i].name) = local[i].enabled
    /\ \A j \in DOMAIN remote :
          LET n == to_lowercase(remote[j].name)
          IN  (\A i \in DOMAIN local : local[i].name # n) =>
                 /\ n \in DOMAIN snapshot.flags
                 /\ \E k \in DOMAIN remote :
                       /\ to_lowercase(remote[k].name) = n
                       /\ IsEnabledResult(snapshot, n) = remote[k].enabled

\* C3: the snapshot a successful refresh writes follows the merge rule, for
\* every remote list and every set of local overrides.
C3_MergePrecedence ==
    [][\A c \in Callers :
          (pc[c] = "merge" /\ pc'[c] = "release") =>
              MergeRule(resp[c].body.flags, build_local(env), cache')]_vars

\* C4: during an outage the flags of the last good snapshot keep their
\* answers: a flag that is enabled in the snapshot and has no local override
\* still resolves to true after a failed refresh.
C4_OutageKeepsLastGood ==
    [][\A c \in Callers :
          (pc[c] = "fallback" /\ pc'[c] = "release") =>
              \A n \in DOMAIN cache.flags :
                  (cache.flags[n].enabled /\ n \notin LocalNames(env)) =>
                      IsEnabledResult(cache', n)]_vars

C6_CallbackOncePerFailure ==
    \A c \in Callers :
        pc[c] \in {"read", "done"} => callbacks[c] = (IF refetch_err[c] THEN 1 ELSE 0)

\* The places of a caller after its fetch_flags call.
AfterFetch == {"await", "fetch_ok", "merge", "fetch_err", "fallback", "release", "read",
               "done"}

CoolDownElapsed ==
    circuit_state.last_failure # None /\ now - circuit_state.last_failure[1] >= 10

\* C7 as stated: with max_retries = 3 three consecutive failures open the
\* breaker, a refresh attempt within the cool-down sends no request, and a
\* read operation that checks whether a refresh is due once the cool-down of
\* the open breaker has elapsed (the gate being free) goes on to a fetch attempt.
C7_FetchAfterCoolDown ==
    /\ [](max_retries = 3 =>
            /\ (circuit_state.failure_count >= 3 => circuit_state.is_open)
            /\ \A c \in Callers : entry[c] = "skip" => net_calls[c] = 0)
    /\ [][max_retries = 3 =>
            \A c \in Callers :
               (/\ pc[c] = "check" /\ pc'[c] # "check"
                /\ circuit_state.is_open /\ CoolDownElapsed
                /\ ~refresh_in_progress) => pc'[c] = "cas"]_vars

\* C7 as amended: with max_retries = 3 three consecutive failures open the
\* breaker; a refresh attempt that reaches the breaker check while the
\* breaker is open and less than 10 seconds after the last failure sends no
\* request and makes no fetch attempt; one that reaches it once the cool-down
\* has elapsed makes exactly one fetch attempt.
C7_TripAndHeal ==
    /\ [](max_retries = 3 =>
            /\ (circuit_state.failure_count >= 3 => circuit_state.is_open)
            /\ \A c \in Callers :
                  /\ entry[c] = "skip" => (attempts[c] = 0 /\ net_calls[c] = 0)
                  /\ (entry[c] = "heal" /\ pc[c] \in AfterFetch) => attempts[c] = 1)
    /\ [][max_retries = 3 =>
            \A c \in Callers :
               (pc[c] = "refetch" /\ pc'[c] # "refetch" /\ circuit_state.is_open) =>
                   IF CoolDownElapsed
                   THEN entry'[c] = "heal" /\ pc'[c] = "fetch"
                   ELSE entry'[c] = "skip" /\ pc'[c] = "release"]_vars

\* C7, its case: three failures have opened the breaker of a client with
\* max_retries = 3, and after the cool-down a refresh attempt has sent its request.
C7_Witness ==
    /\ max_retries = 3
    /\ \E c \in Callers :
          /\ entry[c] = "heal" /\ pc[c] = "await"
          /\ attempts[c] = 1 /\ net_calls[c] = 1

C9_OpenImpliesThreshold ==
    circuit_state.is_open => circuit_state.failure_count >= max_retries

\* C9, its case: the breaker of a client with max_retries = 3 is open.
C9_Witness ==
    max_retries = 3 /\ circuit_state.is_open /\ circuit_state.failure_count = 3

\* C10: the breaker closes only in the breaker check of a refresh attempt,
\* only when at least 10 seconds have passed since the last failure, with the
\* failure count reset to 0, and that refresh attempt then makes one fetch attempt.
C10_ClosesOnlyAfterCoolDown ==
    /\ [][(circuit_state.is_open /\ ~circuit_state'.is_open) =>
             /\ CoolDownElapsed
             /\ circuit_state'.failure_count = 0
             /\ \E c \in Callers :
                   /\ pc[c] = "refetch" /\ pc'[c] = "fetch"
                   /\ entry'[c] = "heal"]_vars
    /\ [](\A c \in Callers :
             /\ (entry[c] = "heal" /\ pc[c] \in AfterFetch) => attempts[c] = 1
             /\ (entry[c] = "heal" /\ pc[c] = "fetch") => attempts[c] = 0)

\* C10, its case: a refresh attempt has just closed the breaker and is about
\* to fetch.
C10_Witness ==
    \E c \in Callers :
        /\ entry[c] = "heal" /\ pc[c] = "fetch"
        /\ ~circuit_state.is_open /\ circuit_state.failure_count = 0
        /\ circuit_state.last_failure # None

\* C11: a refresh attempt that finds the breaker open less than 10 seconds
\* after the last failure makes no fetch attempt and sends no request, returns
\* Ok (no error callback, neither in refetch nor in its caller), and neither it
\* nor the release of the gate changes the snapshot's records, its deadline or
\* the circuit state.
C11_SkipIsNoOp ==
    /\ [][\A c \in Callers :
             (/\ pc[c] = "refetch" /\ pc'[c] # "refetch"
              /\ circuit_state.is_open /\ ~CoolDownElapsed) =>
                 /\ pc'[c] = "release" /\ entry'[c] = "skip"
                 /\ cache' = cache
                 /\ circuit_state' = circuit_state
                 /\ refetch_err'[c] = FALSE]_vars
    /\ [][\A c \in Callers :
             (entry[c] = "skip" /\ pc[c] = "release" /\ pc'[c] # "release") =>
                 /\ pc'[c] = "read"
                 /\ cache' = cache
                 /\ circuit_state' = circuit_state
                 /\ callbacks'[c] = 0]_vars
    /\ [](\A c \in Callers :
             entry[c] = "skip" =>
                 /\ attempts[c] = 0 /\ net_calls[c] = 0
                 /\ callbacks[c] = 0 /\ ~refetch_err[c])

\* C11, its case: a refresh attempt was skipped by the open breaker and its
\* caller, the gate released, is at its lookup.
C11_Witness ==
    \E c \in Callers :
        /\ entry[c] = "skip" /\ pc[c] = "read"
        /\ circuit_state.is_open /\ ~CoolDownElapsed

\* C12: is_enabled always returns: a caller at its lookup can take it,
\* whether or not its refresh failed, and the value is a boolean, true exactly
\* when the lowercased name is in the snapshot with an enabled record; so it
\* is false for every name on an empty snapshot.
C12_ResolveNeverFails ==
    /\ [](\A c \in Callers : pc[c] = "read" => ENABLED Read(c))
    /\ [][\A c \in Callers :
             (pc[c] = "read" /\ pc'[c] = "done" /\ result'[c].kind = "is_enabled") =>
                 LET n == to_lowercase(result'[c].name)
                 IN  /\ result'[c].value \in BOOLEAN
                     /\ result'[c].value =
                            (n \in DOMAIN cache.flags /\ cache.flags[n].enabled)
                     /\ (DOMAIN cache.flags = {} => result'[c].value = FALSE)]_vars

\* C12, its case: the refresh of an is_enabled call has failed, the fallback
\* left the snapshot empty, and the call has returned false.
C12_Witness ==
    \E c \in Callers :
        /\ pc[c] = "done" /\ refetch_err[c] /\ callbacks[c] > 0
        /\ DOMAIN cache.flags = {}
        /\ result[c].kind = "is_enabled" /\ result[c].name = nh
        /\ result[c].value = FALSE

\* C13: a caller that found the snapshot stale and finds the gate taken can
\* take its next step at once, and that step brings it to its lookup and
\* changes nothing else; it can take the lookup and return while the winner's
\* request is in flight; it has made no fetch attempt, sent no request and
\* invoked no callback, and its answer is read from the snapshot as it is at
\* the lookup.
C13_LoserDoesNotWait ==
    /\ [](\A d \in Callers :
             /\ (pc[d] = "cas" /\ refresh_in_progress) =>
                    ENABLED (TryAcquire(d) /\ pc'[d] = "read")
             /\ (pc[d] = "read" /\ \E c \in Callers : pc[c] = "await") => ENABLED Read(d)
             /\ (pc[d] = "done" /\ \E c \in Callers : pc[c] = "await") => ENABLED Return(d)
             /\ (pc[d] \in {"read", "done"} /\ entry[d] = "none") =>
                    (attempts[d] = 0 /\ net_calls[d] = 0 /\ callbacks[d] = 0))
    /\ [][\A d \in Callers :
             (pc[d] = "cas" /\ pc'[d] # "cas" /\ refresh_in_progress) =>
                 /\ pc'[d] = "read" /\ entry'[d] = "none"
                 /\ \A c \in Callers \ {d} : pc'[c] = pc[c]
                 /\ UNCHANGED <<cache, circuit_state, refresh_in_progress, attempts,
                                net_calls, callbacks>>]_vars
    /\ [][\A d \in Callers :
             (pc[d] = "read" /\ pc'[d] = "done" /\ entry[d] = "none" /\ saw_stale[d]) =>
                 /\ cache' = cache
                 /\ result'[d].kind = "list" => result'[d].value = {cache.flags[n] : n \in DOMAIN cache.flags}
                 /\ result'[d].kind = "is_enabled" =>
                        result'[d].value =
                           (/\ to_lowercase(result'[d].name) \in DOMAIN cache.flags
                            /\ cache.flags[to_lowercase(result'[d].name)].enabled)]_vars

\* C13, its case: a caller found the snapshot stale, lost the compare_exchange
\* and has returned from its lookup; the winner's request is still in flight.
C13_Witness ==
    \E c, d \in Callers :
        /\ c # d
        /\ pc[c] = "await"
        /\ pc[d] = "done" /\ saw_stale[d] /\ entry[d] = "none"
        /\ net_calls[d] = 0

\* The places of a caller before its lookup: the refresh-if-due prefix.
BeforeLookup == {"check", "cas", "refetch", "fetch", "await", "fetch_ok", "merge",
                 "fetch_err", "fallback", "clear", "insert", "release"}

\* C14: one get_multiple call makes at most one fetch attempt and, once at its
\* lookups, does not go back to the gate or to a refresh; the records of the
\* cache do not change from the moment the call takes its read guard to its
\* return, and every entry it returns is the answer of the snapshot it took
\* the guard on, one entry per name as written.
C14_BatchOneSnapshot ==
    /\ [](\A c \in Callers : attempts[c] <= 1 /\ net_calls[c] <= 1)
    /\ [][\A c \in Callers :
             /\ pc[c] \in {"read", "lookup", "done"} => pc'[c] \notin BeforeLookup
             /\ pc'[c] = "refetch" => (pc[c] \in {"cas", "refetch"} /\ attempts[c] = 0)
             /\ pc[c] = "lookup" =>
                    /\ cache'.flags = cache.flags
                    /\ view[c] = Some(cache.flags)
             /\ (pc[c] = "lookup" /\ pc'[c] = "done" /\ result[c].kind = "get_multiple") =>
                    LET s == view[c][1]
                        names == result[c].names
                        got == IF result'[c].kind = "get_multiple"
                               THEN result'[c].value ELSE result'[c].flags
                    IN  /\ DOMAIN got = {names[i] : i \in DOMAIN names}
                        /\ \A k \in DOMAIN got :
                              got[k] = (/\ to_lowercase(k) \in DOMAIN s
                                        /\ s[to_lowercase(k)].enabled)]_vars

\* C14, its case: a get_multiple call has looked up the first of its two
\* names and holds its read guard, while another caller has fetched new
\* records and waits for the write guard.
C14_Witness ==
    \E c, d \in Callers :
        /\ pc[c] = "lookup" /\ result[c].kind = "get_multiple"
        /\ Len(todo[c]) = 1 /\ c \in rwlock.readers
        /\ pc[d] = "merge"
        /\ DOMAIN cache.flags # {}

\* C15: every staleness check, get and get_all sees the cache as a completed
\* refresh (or the construction) left it, records, interval and deadline
\* together: never a cleared or partly filled map, never new records with the
\* old deadline. While a refresh is under way no caller holds a read guard,
\* and when it completes the cache is what refresh(records, interval) makes
\* of the records and the interval in one step.
C15_ReplaceIsAtomic ==
    /\ [](\A c \in Callers :
             /\ pc[c] \in {"clear", "insert"} => (rwlock.writer /\ rwlock.readers = {})
             /\ pc[c] = "lookup" => (~rwlock.writer /\ c \in rwlock.readers))
    /\ [][\A c \in Callers :
             /\ (pc[c] = "check" /\ pc'[c] # "check") =>
                    /\ cache = committed
                    /\ (pc'[c] = "cas") = (now > committed.next_refresh)
             /\ pc[c] = "lookup" => cache = committed
             /\ (pc[c] = "insert" /\ pc'[c] = "release") =>
                    cache' = CacheRefresh(cache,
                                IF resp[c].kind = "ok"
                                THEN CombinedFlags(resp[c].body.flags, build_local(env))
                                ELSE build_local(env),
                                IF resp[c].kind = "ok"
                                THEN resp[c].body.interval_allowed ELSE 60,
                                now)]_vars

\* C15, its case: a refresh has cleared the map and inserted some of its
\* records, the deadline is still the old one, and another caller is about to
\* take a read guard.
C15_Witness ==
    \E c, d \in Callers :
        /\ pc[c] = "insert" /\ todo[c] # <<>>
        /\ cache.flags # committed.flags /\ DOMAIN cache.flags # {}
        /\ DOMAIN committed.flags # {}
        /\ pc[d] \in {"check", "read"}

\* The waits (seconds) after a refresh for which the staleness of the cache is
\* computed: up to the age of a new cache's deadline, beyond every interval.
Waits == 0 .. InitialExpiry

\* C16: a refresh with a given interval, completed at time t, sets the
\* deadline to t + interval: the cache is not due for a refresh at any time up
\* to and including t + interval and is due at every later time. So every
\* staleness check made a seconds after the last refresh finds the cache due
\* exactly when a exceeds that refresh's interval; right after a refresh the
\* cache is not due.
C16_DueAfterInterval ==
    /\ [](age # None =>
             (should_refresh_cache(committed, now) <=> age[1] > committed.cache_ttl))
    /\ [][\A c \in Callers :
             /\ (pc[c] = "check" /\ pc'[c] # "check" /\ age # None) =>
                    ((pc'[c] = "cas") <=> (age[1] > committed.cache_ttl))
             /\ (pc[c] = "insert" /\ pc'[c] = "release") =>
                    LET interval == IF resp[c].kind = "ok"
                                    THEN resp[c].body.interval_allowed ELSE 60
                    IN  /\ age' = Some(0)
                        /\ cache'.cache_ttl = interval
                        /\ ~should_refresh_cache(cache', now)
                        /\ \A w \in Waits :
                              should_refresh_cache(cache', now + w) <=> (w > interval)]_vars

\* C16, its case: exactly 60 seconds after a refresh with interval 60 a caller
\* has checked the cache and found it not due.
C16_Witness ==
    \E c \in Callers :
        /\ age = Some(60) /\ committed.cache_ttl = 60
        /\ pc[c] = "read" /\ ~saw_stale[c] /\ entry[c] = "none"

\* The records refetch passes to the refresh it is in.
RecordsOf(c) ==
    IF resp[c].kind = "ok"
    THEN CombinedFlags(resp[c].body.flags, build_local(env))
    ELSE build_local(env)

\* C17: when a refresh completes, get finds exactly the names of the records
\* passed to it, each with the enabled value of the (last) record of that
\* name; get_all returns one record per distinct name, each one of the records
\* passed; and a record of the previous snapshot is in the cache only if it
\* is one of the records passed.
C17_RefreshDiscardsPrior ==
    [][\A c \in Callers :
          (pc[c] = "insert" /\ pc'[c] = "release") =>
              LET records == RecordsOf(c)
                  given == {records[i] : i \in DOMAIN records}
                  names == {r.name : r \in given}
                  last(n) == records[CHOOSE i \in DOMAIN records :
                                        /\ records[i].name = n
                                        /\ \A j \in DOMAIN records :
                                              records[j].name = n => j <= i]
                  all == CacheGetAll(cache')
              IN  /\ \A n \in names \cup DOMAIN committed.flags \cup {nf, ng, nh, <<>>} :
                        CacheGet(cache', n) =
                           IF n \in names THEN <<last(n).enabled, TRUE>> ELSE <<FALSE, FALSE>>
                  /\ all \subseteq given
                  /\ {r.name : r \in all} = names
                  /\ Cardinality(all) = Cardinality(names)
                  /\ \A r \in CacheGetAll(committed) : r \in all => r \in given]_vars

\* C17, its case: a refresh has cleared the map and inserted all its records,
\* some under one name, and a name of the previous snapshot is not among them.
C17_Witness ==
    \E c \in Callers :
        /\ pc[c] = "insert" /\ todo[c] = <<>>
        /\ DOMAIN cache.flags # {}
        /\ \E n \in DOMAIN committed.flags : n \notin DOMAIN cache.flags
        /\ Len(RecordsOf(c)) > Cardinality(DOMAIN cache.flags)

\* The client is as build() returned it: the cache has never been replaced
\* (every fetch attempt ends in a replacement, and a failed one in a recorded
\* failure as well).
AsBuilt ==
    /\ cache = [flags |-> EmptyMap, cache_ttl |-> 60, next_refresh |-> now - 90]
    /\ circuit_state = [is_open |-> FALSE, failure_count |-> 0, last_failure |-> None]

\* C18: a client is built with an empty cache that is due for a refresh.
\* While it is as built, a read operation that checks the cache goes on to
\* the gate, takes it if it is free and then makes a fetch attempt; the only
\* callers that answer from the cache as built are those that found the gate
\* taken.
C18_NewClientRefreshesFirst ==
    /\ AsBuilt
    /\ [](AsBuilt =>
             /\ DOMAIN cache.flags = {}
             /\ should_refresh_cache(cache, now)
             /\ \A c \in Callers :
                   /\ pc[c] \in {"read", "done"} => (saw_stale[c] /\ entry[c] = "none")
                   /\ pc[c] \in {"refetch", "fetch"} => attempts[c] = 0
                   /\ pc[c] \notin {"release"})
    /\ [][AsBuilt =>
             \A c \in Callers :
                /\ (pc[c] = "check" /\ pc'[c] # "check") => pc'[c] = "cas"
                /\ (pc[c] = "cas" /\ pc'[c] # "cas") =>
                       pc'[c] = (IF refresh_in_progress THEN "read" ELSE "refetch")
                /\ (pc[c] = "refetch" /\ pc'[c] # "refetch") => pc'[c] = "fetch"
                /\ (pc[c] = "fetch" /\ pc'[c] # "fetch") => attempts'[c] = 1
                /\ pc'[c] = "read" => (pc[c] \in {"cas", "read"} /\ refresh_in_progress)]_vars

\* C18, its case: the first read operation on a new client has found the
\* empty cache due, taken the free gate and is about to fetch; nothing has
\* been answered yet.
C18_Witness ==
    /\ AsBuilt
    /\ \E c \in Callers :
          /\ pc[c] = "fetch" /\ entry[c] = "closed" /\ attempts[c] = 0
          /\ \A d \in Callers \ {c} : pc[d] = "idle"

\* The caller has won the gate in its current operation and its fetch has
\* not failed.
Winner(c) == entry[c] \in {"closed", "heal"} /\ ~refetch_err[c]

\* The lowercased names of a body's records that have no local override: the
\* flags the merge rule leaves to the remote.
RemoteDecided(body, e) ==
    {to_lowercase(body.flags[j].name) : j \in DOMAIN body.flags} \ LocalNames(e)

\* The values the remote gives a flag: those of its records of that
\* lowercased name.
RemoteValues(body, n) ==
    {body.flags[j].enabled : j \in {k \in DOMAIN body.flags : to_lowercase(body.flags[k].name) = n}}

\* C19: a caller that wins the gate reaches its lookup only after its fetch
\* attempt; when its fetch succeeds, the cache is replaced by the merge of the
\* fetched body, in which a flag the remote decides is found with the
\* remote's value; the records stay as they are until the caller's lookup
\* unless a later refresh replaces them; so the caller answers from its own
\* refresh's snapshot (is_enabled returns the remote's value for a flag the
\* remote decides) or from a later one.
C19_WinnerReadsItsRefresh ==
    /\ [](\A c \in Callers :
             (pc[c] \in {"read", "done"} /\ Winner(c)) =>
                 (attempts[c] = 1 /\ net_calls[c] = 1))
    /\ [][\A c \in Callers :
             /\ (pc[c] = "merge" /\ pc'[c] # "merge") =>
                    /\ last_writer' = Some(c)
                    /\ pc'[c] = "release"
                    /\ \A n \in RemoteDecided(resp[c].body, env) :
                          /\ n \in DOMAIN cache'.flags
                          /\ cache'.flags[n].enabled \in RemoteValues(resp[c].body, n)
             /\ (last_writer = Some(c) /\ pc[c] \in {"release", "read"}) =>
                    \/ cache'.flags = cache.flags
                    \/ last_writer' # Some(c)
             /\ (pc[c] = "read" /\ pc'[c] = "done" /\ Winner(c) /\ last_writer = Some(c)) =>
                    \E r \in Responses :
                       /\ \A n \in RemoteDecided(r, env) :
                             /\ n \in DOMAIN cache.flags
                             /\ cache.flags[n].enabled \in RemoteValues(r, n)
                       /\ DOMAIN cache.flags = RemoteDecided(r, env) \cup LocalNames(env)
                       /\ result'[c].kind = "is_enabled" =>
                             LET n == to_lowercase(result'[c].name)
                             IN  n \in RemoteDecided(r, env) =>
                                    result'[c].value \in RemoteValues(r, n)]_vars

\* C19, its case: the first is_enabled call on a new client without local
\* overrides has won the gate, fetched a body in which the flag is enabled,
\* and has returned true.
C19_Witness ==
    \E c \in Callers :
        /\ pc[c] = "done" /\ Winner(c) /\ last_writer = Some(c)
        /\ env = <<>> /\ circuit_state.last_failure = None
        /\ \A d \in Callers \ {c} : pc[d] = "idle"
        /\ result[c].kind = "is_enabled" /\ result[c].name = nf
        /\ result[c].value = TRUE

\* A name resolves to enabled on the records s: its lowercased form is
\* there with an enabled record.
ResolvesEnabled(s, name) ==
    to_lowercase(name) \in DOMAIN s /\ s[to_lowercase(name)].enabled

\* C20: all_enabled(names) returns true exactly when every name resolves to
\* enabled, and any_enabled(names) exactly when at least one does, on the
\* records of the cache as they were when the call's get_multiple took its
\* read guard; for no names all_enabled returns true and any_enabled false,
\* and neither checks the cache, takes the gate or fetches.
C20_AllAndAny ==
    /\ [][\A c \in Callers :
             (pc[c] = "lookup" /\ pc'[c] = "done") =>
                 LET names == result'[c].names
                     s == view[c][1]
                 IN  /\ result'[c].kind = "all_enabled" =>
                            result'[c].value = (\A i \in DOMAIN names : ResolvesEnabled(s, names[i]))
                     /\ result'[c].kind = "any_enabled" =>
                            result'[c].value = (\E i \in DOMAIN names : ResolvesEnabled(s, names[i]))
                     /\ result'[c].kind \in {"all_enabled", "any_enabled"} =>
                            (names # <<>> /\ s = cache.flags)]_vars
    /\ [][\A c \in Callers :
             (pc[c] = "idle" /\ pc'[c] = "done") =>
                 /\ result'[c].names = <<>>
                 /\ result'[c].kind \in {"all_enabled", "any_enabled"}
                 /\ result'[c].value = (result'[c].kind = "all_enabled")
                 /\ UNCHANGED <<cache, circuit_state, refresh_in_progress, attempts, net_calls>>]_vars
    /\ [](\A c \in Callers :
             (pc[c] = "done" /\ result[c].kind \in {"all_enabled", "any_enabled"}) =>
                 /\ result[c].value \in BOOLEAN
                 /\ result[c].names = <<>> => result[c].value = (result[c].kind = "all_enabled"))

\* C20, its case: on the same names, one enabled and one not, all_enabled has
\* returned false to one caller and any_enabled true to another.
C20_Witness ==
    \E c, d \in Callers :
        /\ pc[c] = "done" /\ pc[d] = "done"
        /\ result[c].kind = "all_enabled" /\ result[c].names = <<nf, ng>>
        /\ result[c].value = FALSE
        /\ result[d].kind = "any_enabled" /\ result[d].names = <<nf, ng>>
        /\ result[d].value = TRUE

\* The capital letters, and the pairs of a capital and its small letter.
Capitals == {UpperChars[j] : j \in DOMAIN UpperChars}
CasePairs == {{UpperChars[j], LowerChars[j]} : j \in DOMAIN UpperChars}

\* A name without capital letters.
IsLowercase(s) == \A i \in DOMAIN s : s[i] \notin Capitals

\* Two names that differ in letter case at most.
SameUpToCase(a, b) ==
    /\ Len(a) = Len(b)
    /\ \A i \in DOMAIN a : a[i] = b[i] \/ {a[i], b[i]} \in CasePairs

\* C21: every record of the cache is stored under a name without capital
\* letters, which is the name in the record; and is_enabled gives the same
\* answer for any two names that differ in letter case only.
C21_CaseInsensitive ==
    /\ [](\A n \in DOMAIN cache.flags : IsLowercase(n) /\ cache.flags[n].name = n)
    /\ [](\A a, b \in Names :
             SameUpToCase(a, b) => IsEnabledResult(cache, a) = IsEnabledResult(cache, b))
    /\ [][\A c \in Callers :
             (pc[c] = "read" /\ pc'[c] = "done" /\ result'[c].kind = "is_enabled") =>
                 \A n \in DOMAIN cache.flags :
                     SameUpToCase(n, result'[c].name) =>
                         result'[c].value = cache.flags[n].enabled]_vars

\* C21, its case: the remote has sent a flag under the name "F", no local
\* override exists, the record is stored under "f", and is_enabled("F") has
\* returned that record's value.
C21_Witness ==
    \E c \in Callers :
        /\ env = <<>> /\ last_writer = Some(c) /\ ~refetch_err[c]
        /\ nf \in DOMAIN cache.flags /\ cache.flags[nf].id = <<"3">>
        /\ pc[c] = "done" /\ result[c].kind = "is_enabled" /\ result[c].name = nF
        /\ result[c].value = cache.flags[nf].enabled

\* C22: list runs the refresh-if-due steps of the other read operations
\* (every caller at its lookup can take it as list's, and one that went
\* through refetch has made its fetch attempt) and then returns the records of
\* the cache, all of them and nothing else, also when its refresh has failed.
C22_ListReturnsSnapshot ==
    /\ [](\A c \in Callers : pc[c] = "read" => ENABLED (Read(c) /\ result'[c].kind = "list"))
    /\ [][\A c \in Callers :
             (pc[c] = "read" /\ pc'[c] = "done" /\ result'[c].kind = "list") =>
                 /\ result'[c].value = {cache.flags[n] : n \in DOMAIN cache.flags}
                 /\ cache' = cache
                 /\ entry[c] \in {"closed", "heal"} => attempts[c] = 1
                 /\ refetch_err[c] => callbacks[c] > 0]_vars

\* C22, its case: the refresh of a list call has failed, and list has
\* returned the local overrides, which the fallback left in the cache.
C22_Witness ==
    \E c \in Callers :
        /\ pc[c] = "done" /\ refetch_err[c] /\ last_writer = Some(c)
        /\ result[c].kind = "list"
        /\ result[c].value # {}
        /\ result[c].value = {cache.flags[n] : n \in DOMAIN cache.flags}

\* ------------------------------------- a client without credentials

\* The environments of a client whose flags all come from the environment:
\* the two variables of test_local_environment_flags, values that are not
\* "true", a name with a hyphen, a variable that is not a flag, and a name
\* that starts with the prefix itself (FLAGS_FLAGS_X).
TestEnvFlag == <<"T","E","S","T","_","E","N","V","_","F","L","A","G">>
AnotherFlag == <<"A","N","O","T","H","E","R","_","F","L","A","G">>
LocalEnvironments ==
    {<<EnvVar(TestEnvFlag, "true"), EnvVar(AnotherFlag, "false")>>,
     <<EnvVar(TestEnvFlag, "TRUE"), [key |-> <<"M","Y","_">> \o FlagsPrefix \o <<"X">>, value |-> "true"]>>,
     <<EnvVar(TestEnvFlag, "1")>>,
     <<EnvVar(<<"A","-","B">>, "true")>>,
     <<EnvVar(FlagsPrefix \o <<"X">>, "true")>>}

\* ClientBuilder::build without with_auth: Client.auth is None.
LocalInit ==
    /\ env \in LocalEnvironments
    /\ auth = FALSE
    /\ max_retries \in RetryChoices
    /\ cache = NewCache(0)
    /\ circuit_state = [is_open |-> FALSE, failure_count |-> 0, last_failure |-> None]
    /\ refresh_in_progress = FALSE
    /\ pc = [c \in Callers |-> "idle"]
    /\ resp = [c \in Callers |-> NoResp]
    /\ refetch_err = [c \in Callers |-> FALSE]
    /\ result = [c \in Callers |-> NoResult]
    /\ entry = [c \in Callers |-> "none"]
    /\ attempts = [c \in Callers |-> 0]
    /\ net_calls = [c \in Callers |-> 0]
    /\ callbacks = [c \in Callers |-> 0]
    /\ saw_stale = [c \in Callers |-> FALSE]
    /\ peer_fetched = [c \in Callers |-> FALSE]
    /\ snapshot_fetched = FALSE
    /\ rwlock = [writer |-> FALSE, readers |-> {}]
    /\ todo = [c \in Callers |-> <<>>]
    /\ view = [c \in Callers |-> None]
    /\ committed = NewCache(0)
    /\ age = None
    /\ last_writer = None
    /\ builder = None
    /\ build_result = [kind |-> "Ok"]
    /\ mw = None

\* The steps of such a client: fetch_flags returns AuthError before a request
\* is built, so no answer arrives and the Ok arm of refetch is never entered.
LocalNext ==
    \/ Tick
    \/ \E c \in Callers :
         \/ Call(c)
         \/ CheckStale(c)
         \/ TryAcquire(c)
         \/ RefetchEntry(c)
         \/ FetchFlags(c)
         \/ OnFetchErr(c)
         \/ WriteFallback(c)
         \/ Release(c)
         \/ Read(c)
         \/ Return(c)

LocalSpec == LocalInit /\ [][LocalNext]_vars

\* The name of the variable FLAGS_<X>: <X>.
AfterPrefix(key) == SubSeq(key, Len(FlagsPrefix) + 1, Len(key))
\* A name with its underscores replaced by hyphens, and with its underscores
\* and hyphens replaced by spaces.
Hyphenated(s) == [i \in DOMAIN s |-> IF s[i] = "_" THEN "-" ELSE s[i]]
Spaced(s) == [i \in DOMAIN s |-> IF s[i] \in {"_", "-"} THEN " " ELSE s[i]]

\* C23: when the local overrides are written to the cache, every variable
\* FLAGS_<X> of the environment has a record under the lowercased <X>, under
\* its hyphenated variant and under its spaced variant, each enabled exactly
\* when the variable's value is "true", and is_enabled answers accordingly.
C23_LocalOverrides ==
    [][\A c \in Callers :
         (pc[c] = "fallback" /\ pc'[c] = "release") =>
             \A i \in DOMAIN env :
                 starts_with(env[i].key, FlagsPrefix) =>
                     LET x == to_lowercase(AfterPrefix(env[i].key))
                     IN  \A n \in {x, Hyphenated(x), Spaced(x)} :
                             /\ n \in DOMAIN cache'.flags
                             /\ cache'.flags[n].enabled = (env[i].value = "true")
                             /\ IsEnabledResult(cache', n) = (env[i].value = "true")]_vars

\* ------------------------------------------------- ClientBuilder::build

\* char::is_whitespace, for the characters of the model.
Whitespace == {" ", "\t", "\n"}

\* str::trim: leading and trailing whitespace removed.
RECURSIVE trim(_)
trim(s) ==
    IF s = <<>> THEN s
    ELSE IF Head(s) \in Whitespace THEN trim(Tail(s))
    ELSE IF s[Len(s)] \in Whitespace THEN trim(SubSeq(s, 1, Len(s) - 1))
    ELSE s

\* str::is_empty.
is_empty(s) == Len(s) = 0

\* The builders build is called on: base_url, max_retries and auth as the
\* with_ methods left them.
BaseUrls == {<<>>, <<" ">>, <<"\t", " ">>, <<"u">>, <<" ", "u", "\n">>}
Ids == {<<>>, <<" ">>, <<"i">>}
MaxRetriesChoices == {0, 3, 10, 11}
Auths == {None} \cup {Some([project_id |-> p, agent_id |-> a, environment_id |-> e]) :
                          p \in Ids, a \in Ids, e \in Ids}
Builders == [base_url : BaseUrls, max_retries : MaxRetriesChoices, auth : Auths]

\* The fields of the client and what the model records of its callers.
client == <<auth, max_retries, cache, circuit_state, refresh_in_progress,
            pc, resp, refetch_err, result, entry, attempts, net_calls, callbacks,
            saw_stale, peer_fetched, snapshot_fetched, rwlock, todo, view, committed,
            age, last_writer>>

\* The value of the client's fields while there is no client.
NoClient == "no client"

\* A builder, and no client yet.
BuildInit ==
    /\ env = <<>>
    /\ builder \in {Some(b) : b \in Builders}
    /\ build_result = [kind |-> "none"]
    /\ mw = None
    /\ auth = NoClient
    /\ max_retries = NoClient
    /\ cache = NoClient
    /\ circuit_state = NoClient
    /\ refresh_in_progress = NoClient
    /\ pc = NoClient
    /\ resp = NoClient
    /\ refetch_err = NoClient
    /\ result = NoClient
    /\ entry = NoClient
    /\ attempts = NoClient
    /\ net_calls = NoClient
    /\ callbacks = NoClient
    /\ saw_stale = NoClient
    /\ peer_fetched = NoClient
    /\ snapshot_fetched = NoClient
    /\ rwlock = NoClient
    /\ todo = NoClient
    /\ view = NoClient
    /\ committed = NoClient
    /\ age = NoClient
    /\ last_writer = NoClient

\* A validation that takes its strings as they are, untrimmed.
BuildOutcomeUntrimmed(b, http_client_ok) ==
    IF b.auth # None /\ is_empty(b.auth[1].project_id)
    THEN "Project ID cannot be empty"
    ELSE IF b.auth # None /\ is_empty(b.auth[1].agent_id)
    THEN "Agent ID cannot be empty"
    ELSE IF b.auth # None /\ is_empty(b.auth[1].environment_id)
    THEN "Environment ID cannot be empty"
    ELSE IF is_empty(b.base_url)
    THEN "Base URL cannot be empty"
    ELSE IF b.max_retries > 10
    THEN "Max retries cannot exceed 10"
    ELSE IF ~http_client_ok
    THEN "Failed to build HTTP client"
    ELSE "Ok"

\* The checks of build in their order: the message of the BuilderError it
\* returns, or "Ok". http_client_ok is the outcome of
\* reqwest::Client::builder().timeout(..).build().
BuildOutcome(b, http_client_ok) ==
    IF b.auth # None /\ is_empty(trim(b.auth[1].project_id))
    THEN "Project ID cannot be empty"
    ELSE IF b.auth # None /\ is_empty(trim(b.auth[1].agent_id))
    THEN "Agent ID cannot be empty"
    ELSE IF b.auth # None /\ is_empty(trim(b.auth[1].environment_id))
    THEN "Environment ID cannot be empty"
    ELSE IF is_empty(trim(b.base_url))
    THEN "Base URL cannot be empty"
    ELSE IF b.max_retries > 10
    THEN "Max retries cannot exceed 10"
    ELSE IF ~http_client_ok
    THEN "Failed to build HTTP client"
    ELSE "Ok"

\* ClientBuilder::build: Err(BuilderError) and no client, or Ok(Client {..}).
Build ==
    /\ builder # None
    /\ build_result.kind = "none"
    /\ UNCHANGED <<env, builder, mw>>
    /\ \E http_client_ok \in BOOLEAN :
         LET outcome == BuildOutcome(builder[1], http_client_ok)
         IN  IF outcome # "Ok"
             THEN /\ build_result' = [kind |-> "Err", error |-> "BuilderError",
                                      message |-> outcome]
                  /\ UNCHANGED client
             ELSE /\ build_result' = [kind |-> "Ok"]
                  /\ auth' = (builder[1].auth # None)
                  /\ max_retries' = builder[1].max_retries
                  /\ cache' = NewCache(0)
                  /\ circuit_state' = [is_open |-> FALSE, failure_count |-> 0,
                                       last_failure |-> None]
                  /\ refresh_in_progress' = FALSE
                  /\ pc' = [c \in Callers |-> "idle"]
                  /\ resp' = [c \in Callers |-> NoResp]
                  /\ refetch_err' = [c \in Callers |-> FALSE]
                  /\ result' = [c \in Callers |-> NoResult]
                  /\ entry' = [c \in Callers |-> "none"]
                  /\ attempts' = [c \in Callers |-> 0]
                  /\ net_calls' = [c \in Callers |-> 0]
                  /\ callbacks' = [c \in Callers |-> 0]
                  /\ saw_stale' = [c \in Callers |-> FALSE]
                  /\ peer_fetched' = [c \in Callers |-> FALSE]
                  /\ snapshot_fetched' = FALSE
                  /\ rwlock' = [writer |-> FALSE, readers |-> {}]
                  /\ todo' = [c \in Callers |-> <<>>]
                  /\ view' = [c \in Callers |-> None]
                  /\ committed' = NewCache(0)
                  /\ age' = None
                  /\ last_writer' = None

BuildNext == Build

BuildSpec == BuildInit /\ [][BuildNext]_vars

\* A string that is empty or all whitespace.
IsBlank(s) == \A i \in DOMAIN s : s[i] \in Whitespace

\* The configurations the claim has build reject.
Rejected(b) ==
    \/ IsBlank(b.base_url)
    \/ b.max_retries > 10
    \/ /\ b.auth # None
       /\ \/ IsBlank(b.auth[1].project_id)
          \/ IsBlank(b.auth[1].agent_id)
          \/ IsBlank(b.auth[1].environment_id)

\* build has returned an error and there is no client.
BuilderErrorNoClient ==
    /\ build_result'.kind = "Err" /\ build_result'.error = "BuilderError"
    /\ \A i \in DOMAIN client : client'[i] = NoClient

\* build has returned a client: closed breaker, no failure counted, free gate.
ClientAsNew ==
    /\ build_result'.kind = "Ok"
    /\ circuit_state'.is_open = FALSE
    /\ circuit_state'.failure_count = 0
    /\ refresh_in_progress' = FALSE

\* C24 as stated: build returns a BuilderError and no client exactly for the
\* rejected configurations (blank base URL, max_retries above 10, an auth with
\* a blank id), and a new client otherwise.
C24_BuildErrorsExactly ==
    [][build_result.kind = "none" /\ build_result'.kind # "none" =>
         IF Rejected(builder[1]) THEN BuilderErrorNoClient ELSE ClientAsNew]_vars

\* C24, amended: a rejected configuration gets a BuilderError and no client;
\* any other gets a new client, unless the HTTP client cannot be built, which
\* is a BuilderError and no client too.
C24_BuildErrors ==
    [][build_result.kind = "none" /\ build_result'.kind # "none" =>
         IF Rejected(builder[1])
         THEN BuilderErrorNoClient /\ build_result'.message # "Failed to build HTTP client"
         ELSE \/ ClientAsNew
              \/ BuilderErrorNoClient /\ build_result'.message = "Failed to build HTTP client"]_vars

\* C24, its cases: an auth whose agent id is whitespace next to a good base
\* URL and max_retries has been rejected, and there is no client.
C24_Witness ==
    /\ build_result.kind = "Err" /\ build_result.error = "BuilderError"
    /\ builder[1].auth # None
    /\ builder[1].auth[1].project_id = <<"i">>
    /\ builder[1].auth[1].agent_id = <<" ">>
    /\ builder[1].base_url = <<"u">>
    /\ builder[1].max_retries = 3
    /\ cache = NoClient

\* ------------------------------------------------- the tower middleware

\* str::split(',').
RECURSIVE split(_)
split(s) ==
    IF ~contains(s, ",") THEN <<s>>
    ELSE LET i == CHOOSE k \in DOMAIN s : s[k] = "," /\ \A j \in 1 .. k - 1 : s[j] # ","
         IN  <<SubSeq(s, 1, i - 1)>> \o split(SubSeq(s, i + 1, Len(s)))

\* [String]::join(",").
RECURSIVE join(_)
join(ss) ==
    IF ss = <<>> THEN <<>>
    ELSE IF Len(ss) = 1 THEN ss[1]
    ELSE ss[1] \o <<",">> \o join(Tail(ss))

\* FlagsMiddleware::call, flags_from_header: the names between the commas, trimmed.
FlagsFromHeader(v) == [i \in DOMAIN split(v) |-> trim(split(v)[i])]

\* The values of the request's X-Feature-Flags header, if it has one.
HeaderValues == {<<"f">>, <<"g">>, <<"f", ",", " ", "g">>, <<"h", ",", "g">>}
RequestHeaders == {None} \cup {Some(v) : v \in HeaderValues}

\* What the inner service's future resolves to.
InnerOutcomes ==
    {[kind |-> "Ok", status |-> 200, body |-> "ok", headers |-> ("Content-Type" :> "text/plain")],
     [kind |-> "Ok", status |-> 404, body |-> "", headers |-> ("Content-Type" :> "text/plain")],
     [kind |-> "Err", error |-> "e"]}

\* The caller whose is_enabled calls the middleware's flags future awaits.
MwCaller == "c1"

\* A client that serves requests through the middleware.
MwInit == Init /\ max_retries = 1

Serving == mw # None
Awaiting == mw # None /\ mw[1].awaiting

\* Every variable but mw.
served == <<env, builder, build_result, client>>

\* FlagsMiddleware::call: the flags future is made if the request has the
\* header, the inner service is called, and the FlagsFuture is returned.
MwCall ==
    /\ mw = None
    /\ \E h \in RequestHeaders, o \in InnerOutcomes :
         mw' = Some([header |-> h,
                     flags_future |-> h # None,
                     todo |-> IF h = None THEN <<>> ELSE FlagsFromHeader(h[1]),
                     enabled_flags |-> <<>>,
                     awaiting |-> FALSE,
                     inner |-> o,
                     output |-> None,
                     seen_enabled |-> {},
                     failed |-> FALSE])
    /\ UNCHANGED served

\* The flags future reaches client.is(&flag).enabled().await for its next flag.
MwStartFlag ==
    /\ Serving /\ ~mw[1].awaiting
    /\ mw[1].flags_future /\ mw[1].todo # <<>>
    /\ pc[MwCaller] = "idle"
    /\ mw' = Some([mw[1] EXCEPT !.awaiting = TRUE])
    /\ UNCHANGED served

\* The lookup of is_enabled for the flag the future is at.
MwRead ==
    /\ Awaiting
    /\ Read(MwCaller)
    /\ result'[MwCaller].kind = "is_enabled"
    /\ result'[MwCaller].name = Head(mw[1].todo)

\* if client.is(&flag).enabled().await { enabled_flags.push(flag) }
MwCollect ==
    /\ Awaiting
    /\ pc[MwCaller] = "done"
    /\ mw' = Some([mw[1] EXCEPT
                     !.awaiting = FALSE,
                     !.todo = Tail(@),
                     !.enabled_flags = IF result[MwCaller].value
                                       THEN Append(@, Head(mw[1].todo)) ELSE @,
                     !.seen_enabled = IF result[MwCaller].value
                                      THEN @ \cup {Head(mw[1].todo)} ELSE @,
                     !.failed = @ \/ refetch_err[MwCaller]])
    /\ UNCHANGED served

\* A response with the X-Enabled-Flags header whatever the flags.
WithEnabledFlagsAlways(response, enabled_flags) ==
    [response EXCEPT !.headers = ("X-Enabled-Flags" :> join(enabled_flags)) @@ @]

\* FlagsFuture::poll, the response after the flags: the header is inserted
\* if a flag is enabled.
WithEnabledFlags(response, enabled_flags) ==
    IF enabled_flags # <<>>
    THEN [response EXCEPT !.headers = ("X-Enabled-Flags" :> join(enabled_flags)) @@ @]
    ELSE response

\* FlagsFuture::poll when the flags future is Ready(Ok(enabled_flags)):
\* flags_future is set to None and the inner future is polled, which is
\* ready or pending; enabled_flags is a local of this poll.
PollFlagsReady ==
    /\ Serving /\ ~mw[1].awaiting
    /\ mw[1].flags_future /\ mw[1].todo = <<>>
    /\ pc[MwCaller] = "idle"
    /\ \E ready \in BOOLEAN :
         mw' = Some([mw[1] EXCEPT
                       !.flags_future = FALSE,
                       !.enabled_flags = <<>>,
                       !.output = IF ~ready THEN None
                                  ELSE IF mw[1].inner.kind = "Ok"
                                  THEN Some(WithEnabledFlags(mw[1].inner, mw[1].enabled_flags))
                                  ELSE Some(mw[1].inner)])
    /\ UNCHANGED served

\* FlagsFuture::poll without a flags future: this.inner.poll(cx), ready.
PollInner ==
    /\ Serving
    /\ ~mw[1].flags_future /\ mw[1].output = None
    /\ mw' = Some([mw[1] EXCEPT !.output = Some(mw[1].inner)])
    /\ UNCHANGED served

\* The response has been returned; the next request may come.
MwRespond ==
    /\ Serving
    /\ mw[1].output # None
    /\ mw' = None
    /\ UNCHANGED served

MwNext ==
    \/ Tick
    \/ MwCall
    \/ MwStartFlag
    \/ Awaiting /\ Call(MwCaller)
    \/ Awaiting /\ CheckStale(MwCaller)
    \/ Awaiting /\ TryAcquire(MwCaller)
    \/ Awaiting /\ RefetchEntry(MwCaller)
    \/ Awaiting /\ FetchFlags(MwCaller)
    \/ Awaiting /\ HttpReturn(MwCaller)
    \/ Awaiting /\ OnFetchOk(MwCaller)
    \/ Awaiting /\ WriteMerged(MwCaller)
    \/ Awaiting /\ OnFetchErr(MwCaller)
    \/ Awaiting /\ WriteFallback(MwCaller)
    \/ Awaiting /\ Release(MwCaller)
    \/ MwRead
    \/ MwCollect
    \/ Serving /\ ~mw[1].awaiting /\ Return(MwCaller)
    \/ PollFlagsReady
    \/ PollInner
    \/ MwRespond

MwSpec == MwInit /\ [][MwNext]_vars

\* The step in which the FlagsFuture resolves.
Delivered == mw # None /\ mw[1].output = None /\ mw' # None /\ mw'[1].output # None

\* The inner service's outcome is handed on as it is, and so without an
\* X-Enabled-Flags header.
PassedThrough ==
    /\ mw'[1].output[1] = mw[1].inner
    /\ mw[1].inner.kind = "Ok" => "X-Enabled-Flags" \notin DOMAIN mw'[1].output[1].headers

\* Status and body are the inner service's.
SameStatusAndBody ==
    /\ mw'[1].output[1].kind = mw[1].inner.kind
    /\ mw[1].inner.kind = "Ok" =>
           /\ mw'[1].output[1].status = mw[1].inner.status
           /\ mw'[1].output[1].body = mw[1].inner.body
    /\ mw[1].inner.kind = "Err" => mw'[1].output[1] = mw[1].inner

C26_RetriesWithinRefresh ==
    \A c \in Callers :
        (auth /\ pc[c] = "release" /\ refetch_err[c]) =>
            \/ circuit_state.is_open
            \/ attempts[c] = max_retries

\* C27: the gate is held only while a caller is inside refetch or about to
\* give it back, and the caller gives it back when refetch has returned,
\* whether it skipped the fetch, merged a response or fell back after an error.
C27_GateReleased ==
    /\ [](Holders = {} => refresh_in_progress = FALSE)
    /\ [][\A c \in Callers :
             (pc[c] = "release" /\ pc'[c] # "release") =>
                 /\ entry[c] \in {"skip", "closed", "heal"}
                 /\ refresh_in_progress' = FALSE]_vars

\* C27, its case: a refetch has returned an error, the caller has given the
\* gate back and is at its lookup, and nobody holds the gate.
C27_Witness ==
    \E c \in Callers :
        /\ pc[c] = "read" /\ refetch_err[c] /\ entry[c] = "closed"
        /\ Holders = {}
        /\ refresh_in_progress = FALSE

\* C28: a fetch that succeeds sets failure_count to 0 and leaves the breaker
\* closed, whatever the count was. The count grows by one with each failed
\* fetch and in no other step, and the breaker opens only in a failure's step
\* that brings the count to max_retries: failures with a success between them
\* are not added up.
C28_SuccessResetsCount ==
    [][/\ \A c \in Callers :
            (pc[c] = "fetch_ok" /\ pc'[c] = "merge") =>
                /\ circuit_state'.failure_count = 0
                /\ circuit_state'.is_open = FALSE
       /\ circuit_state'.failure_count # circuit_state.failure_count =>
            \/ circuit_state'.failure_count = 0
            \/ /\ circuit_state'.failure_count = circuit_state.failure_count + 1
               /\ \E c \in Callers : pc[c] = "fetch_err" /\ pc'[c] = "fallback"
       /\ (~circuit_state.is_open /\ circuit_state'.is_open) =>
            /\ circuit_state'.failure_count = circuit_state.failure_count + 1
            /\ circuit_state'.failure_count >= max_retries]_vars

\* C28, its case: two fetches have failed, the breaker (max_retries = 3) is
\* closed, and the third fetch has succeeded.
C28_Witness ==
    \E c \in Callers :
        /\ pc[c] = "fetch_ok" /\ resp[c].kind = "ok"
        /\ max_retries = 3
        /\ circuit_state.failure_count = 2
        /\ ~circuit_state.is_open

\* What a read operation on a fresh snapshot leaves alone.
Untouched ==
    /\ refresh_in_progress' = refresh_in_progress
    /\ cache' = cache
    /\ circuit_state' = circuit_state
    /\ attempts' = attempts /\ net_calls' = net_calls /\ callbacks' = callbacks

\* C29: a read operation that finds the snapshot fresh (the present is not
\* past the deadline) goes from its staleness check straight to its lookup and
\* returns; in none of its steps does it change the gate, the cache or the
\* circuit state, and it has made no fetch attempt, sent no request and
\* invoked no error callback.
C29_FreshReadIsPure ==
    /\ [](\A c \in Callers :
            (pc[c] \in {"read", "done"} /\ entry[c] = "none") =>
                attempts[c] = 0 /\ net_calls[c] = 0 /\ callbacks[c] = 0)
    /\ [][\A c \in Callers :
             /\ (pc[c] = "idle" /\ pc'[c] = "check") => Untouched
             /\ (pc[c] = "check" /\ pc'[c] # "check" /\ ~(now > cache.next_refresh)) =>
                    pc'[c] = "read" /\ entry'[c] = "none" /\ Untouched
             /\ (pc[c] = "read" /\ pc'[c] = "done") => Untouched]_vars

\* C29, its case: both callers have returned from read operations without
\* having been inside refetch, on a cache that holds flags and is fresh. A
\* caller that finds the cache stale and is not let into refetch has lost the
\* gate to the other caller's refetch, so one of the two found the cache fresh.
C29_Witness ==
    /\ \A c \in Callers : pc[c] = "done" /\ entry[c] = "none"
    /\ refresh_in_progress = FALSE
    /\ DOMAIN cache.flags # {}
    /\ ~(now > cache.next_refresh)

\* C30: on a client without credentials no request is ever sent; a refetch
\* that gets past the breaker makes one fetch attempt, which fails, and ends
\* with the cache holding the local overrides and nothing else, each of which
\* is_enabled then resolves to its value.
C30_NoCredentials ==
    /\ [](\A c \in Callers :
            /\ net_calls[c] = 0 /\ attempts[c] <= 1
            /\ pc[c] \notin {"await", "fetch_ok", "merge"})
    /\ [][\A c \in Callers :
             (pc[c] = "fallback" /\ pc'[c] = "release") =>
                 LET local_flags == build_local(env)
                 IN  /\ attempts[c] = 1 /\ refetch_err'[c]
                     /\ DOMAIN cache'.flags = {local_flags[i].name : i \in DOMAIN local_flags}
                     /\ \A i \in DOMAIN local_flags :
                            /\ cache'.flags[local_flags[i].name] = local_flags[i]
                            /\ IsEnabledResult(cache', local_flags[i].name)
                                  = local_flags[i].enabled]_vars

\* C30, its case: a refetch without credentials has failed after one attempt
\* and no request, and FLAGS_TEST_ENV_FLAG=true makes test_env_flag resolve.
C30_Witness ==
    \E c \in Callers :
        /\ ~auth
        /\ pc[c] = "release" /\ refetch_err[c]
        /\ attempts[c] = 1 /\ net_calls[c] = 0
        /\ IsEnabledResult(cache, to_lowercase(TestEnvFlag))

\* ------------------------------------------------- read calls without end

\* The caller whose read calls follow one another as time passes.
LiveCaller == "c1"

\* A client with credentials, the default max_retries and local overrides.
LiveInit == Init /\ auth /\ max_retries = 3 /\ env # <<>>

\* A step of the caller's read operation.
ReadCall(c) ==
    \/ Call(c)
    \/ CheckStale(c)
    \/ TryAcquire(c)
    \/ RefetchEntry(c)
    \/ FetchFlags(c)
    \/ HttpReturn(c)
    \/ OnFetchOk(c)
    \/ WriteMerged(c)
    \/ OnFetchErr(c)
    \/ WriteFallback(c)
    \/ Release(c)
    \/ Read(c)
    \/ Return(c)

\* The remote answers the request with a body.
HttpOk(c) == HttpReturn(c) /\ pc'[c] = "fetch_ok"

LiveNext == Tick \/ ReadCall(LiveCaller)

\* The positions of a caller in its read operation.
Positions == {"idle", "check", "cas", "refetch", "fetch", "await", "fetch_ok", "merge",
              "fetch_err", "fallback", "release", "read", "done"}

\* The caller moves on. No statement of a read call waits for another
\* caller here (the gate is tried, not waited for, and the cache's guards are
\* free), so a step of ReadCall is possible at every position, and a caller
\* that is scheduled again and again changes its position again and again.
Proceeds(c) == \E l \in Positions : l # pc[c] /\ pc' = [pc EXCEPT ![c] = l]

\* Time passes and the caller goes on with its read calls, one after the
\* other; the remote answers in the end: of the requests sent to it without
\* end, not all fail.
LiveSpec ==
    /\ LiveInit
    /\ [][LiveNext]_vars
    /\ WF_vars(Tick)
    /\ WF_pc(Proceeds(LiveCaller))
    /\ SF_vars(HttpOk(LiveCaller))

\* A refetch has fetched and merged: the breaker is closed, no failure is
\* counted, and the cache holds a response's flags merged with the local flags.
Healed ==
    /\ pc[LiveCaller] = "release" /\ ~refetch_err[LiveCaller]
    /\ attempts[LiveCaller] = 1 /\ net_calls[LiveCaller] = 1
    /\ circuit_state.is_open = FALSE
    /\ circuit_state.failure_count = 0
    /\ \E r \in Responses :
          cache.flags = InsertAll(EmptyMap, CombinedFlags(r.flags, build_local(env)))

\* C31: whatever failures the remote has had, whether they are counted with
\* the breaker closed or have opened it, a fetch is made again, succeeds, and
\* leaves the breaker closed with failure_count 0 and the remote flags merged
\* with the local overrides in the cache.
C31_Heals ==
    /\ (circuit_state.is_open ~> Healed)
    /\ (circuit_state.failure_count > 0 ~> Healed)
    /\ []<>Healed

\* C31, its case: three failures had opened the breaker, and the refetch that
\* closed it again after the cool-down has merged the remote's answer.
C31_Witness ==
    /\ Healed
    /\ entry[LiveCaller] = "heal"
    /\ circuit_state.last_failure # None

\* C32: a step of a caller that changes the cache or the circuit state is a
\* step of the one caller that holds the gate, taken inside refetch with
\* refresh_in_progress true before and after it. (The clock's step, which
\* is no caller's, only ages the stored instants.)
C32_WritesUnderGate ==
    [][(pc' # pc /\ (cache' # cache \/ circuit_state' # circuit_state)) =>
          /\ refresh_in_progress /\ refresh_in_progress'
          /\ \E c \in Callers :
                /\ Holders = {c}
                /\ pc'[c] # pc[c]
                /\ pc'[c] \in InRefetch]_vars

\* C32, its case: a caller has replaced the cache and counted a failure
\* while it held the gate, and the other caller, which found the cache stale
\* too, was turned away and is at its lookup.
C32_Witness ==
    \E c, d \in Callers :
        /\ c # d
        /\ pc[c] = "release" /\ last_writer = Some(c) /\ refetch_err[c]
        /\ circuit_state.failure_count > 0
        /\ refresh_in_progress
        /\ pc[d] = "read" /\ entry[d] = "none"

\* C33: a caller sends its request to the remote only while the cache is
\* due for a refresh; one that found the cache stale and took the gate after
\* another caller's refresh does not fetch.
C33_FetchOnlyWhenStale ==
    [][\A c \in Callers :
         (pc[c] = "fetch" /\ pc'[c] = "await") => should_refresh_cache(cache, now)]_vars

\* C34: a refetch that finds the breaker open finds its last failure at
\* least the cool-down in the past, so every refetch goes on to its fetch and
\* none returns at the breaker check.
C34_EnteredRefreshFetches ==
    [][\A c \in Callers :
         (pc[c] = "refetch" /\ pc'[c] # "refetch") =>
             /\ circuit_state.is_open =>
                    /\ circuit_state.last_failure # None
                    /\ now - circuit_state.last_failure[1] >= CoolDown
             /\ pc'[c] = "fetch"]_vars

\* The listed flags that resolved enabled, in the order of the request's header.
EnabledInOrder(m) ==
    SelectSeq(FlagsFromHeader(m.header[1]), LAMBDA n : n \in m.seen_enabled)

\* C35: the inner service's future is polled, and so the response delivered,
\* only when all listed flags are resolved; and a response to a request of
\* which a listed flag resolved enabled carries X-Enabled-Flags with the
\* enabled names in the request's order, joined by commas, whether the inner
\* future was ready at the poll that finished the flags or at a later one.
C35_HeaderListsEnabled ==
    [][Delivered =>
         /\ mw[1].todo = <<>> /\ ~mw[1].awaiting
         /\ (mw[1].header # None /\ mw[1].seen_enabled # {} /\ mw[1].inner.kind = "Ok") =>
                /\ "X-Enabled-Flags" \in DOMAIN mw'[1].output[1].headers
                /\ mw'[1].output[1].headers["X-Enabled-Flags"] = join(EnabledInOrder(mw[1]))]_vars

\* ----------------------------------------------- get_multiple, more lists

\* Name lists with a repeated name, with names that differ in case only, with
\* a name no flag has, and the empty list.
WideBatches == Batches \cup {<<nf, nf>>, <<nF, nf, nF>>, <<nh, ng>>, <<>>}

\* The lookup of get_multiple for one of these lists.
ReadBatch(c) ==
    /\ pc[c] = "read"
    /\ ~rwlock.writer
    /\ \E b \in WideBatches :
         result' = [result EXCEPT ![c] =
             [kind |-> "get_multiple", names |-> b, value |-> GetMultipleResult(cache, b)]]
    /\ pc' = [pc EXCEPT ![c] = "done"]
    /\ UNCHANGED <<config, cache, circuit_state, refresh_in_progress, resp,
                   refetch_err, entry, attempts, net_calls, callbacks, saw_stale,
                   peer_fetched, snapshot_fetched, last_writer>>
    /\ UNCHANGED locklevel

BatchInit == Init /\ max_retries = 1

BatchNext == Tick \/ ReadCall(LiveCaller) \/ ReadBatch(LiveCaller)

BatchSpec == BatchInit /\ [][BatchNext]_vars

\* C36: the map get_multiple returns has the input strings as its keys, as
\* they were written, one entry for each distinct one; an entry's value is
\* what is_enabled answers for that name on the same cache (a record under the
\* lowercased name, and enabled); names that differ in case only have equal
\* values.
C36_BatchAgreesWithResolve ==
    [][\A c \in Callers :
         (pc[c] = "read" /\ pc'[c] = "done" /\ result'[c].kind = "get_multiple") =>
             LET names == result'[c].names
                 value == result'[c].value
             IN  /\ DOMAIN value = {names[i] : i \in DOMAIN names}
                 /\ \A k \in DOMAIN value :
                        /\ value[k] = IsEnabledResult(cache, k)
                        /\ value[k] = \E n \in DOMAIN cache.flags :
                                          /\ IsLowercase(n) /\ SameUpToCase(n, k)
                                          /\ cache.flags[n].enabled
                 /\ \A k1, k2 \in DOMAIN value :
                        SameUpToCase(k1, k2) => value[k1] = value[k2]]_vars

\* C36, its case: get_multiple(["F", "f", "F"]) has returned two entries,
\* "F" and "f", both true.
C36_Witness ==
    \E c \in Callers :
        /\ pc[c] = "done" /\ result[c].kind = "get_multiple"
        /\ result[c].names = <<nF, nf, nF>>
        /\ DOMAIN result[c].value = {nF, nf}
        /\ result[c].value[nF] /\ result[c].value[nf]

====
